---- MODULE Spec2Model ----
(***************************************************************************)
(* TinyAgent orchestration core: the process-wide agent registry           *)
(* (tiny_agent/agent/agent_manager.py), the children maps of TinyAgent     *)
(* (tiny_agent/agent/tiny_agent.py) and the delegation tools               *)
(* transfer_to_subagent / transfer_to_subagents                            *)
(* (tiny_agent/tools/buildins/subagents_helper.py).                        *)
(*                                                                         *)
(* Caller threads run one operation at a time.  Every operation is cut     *)
(* into the steps at which another thread can observe or disturb it: a     *)
(* lock acquisition, the statements between two lock operations, the start *)
(* and the end of a child invocation.                                      *)
(***************************************************************************)
EXTENDS Integers, Sequences, FiniteSets, TLC

\* ------------------------------------------------------------------ bounds
NumAgents == 5       \* agent objects that exist in the process
NumNames == 4        \* distinct agent names in use (object NumNames+1 reuses name 1)
NumThreads == 2      \* caller threads
MaxOps == 2          \* operations started in one run, over all caller threads
RecursionLimit == 6  \* interpreter recursion limit met by _unregister_recursive
CpuCount == 2        \* os.cpu_count() of the machine
MaxFan == 3          \* longest to_subagents list passed to transfer_to_subagents

Ids == 1..NumAgents
Threads == 1..NumThreads
Names == 1..NumNames
None == 0

\* TinyAgent.name: fixed at construction; objects beyond NumNames reuse a name,
\* as an agent constructed under the name of an earlier one does.
NameOf(a) == ((a - 1) % NumNames) + 1

\* TinyAgent.agent_id: time stamp plus uuid4, unique per object.
AgentId(a) == a

VARIABLES
  agents,      \* AgentManager._agents: agent_id -> agent object
  agentsLock,  \* AgentManager._agents_lock: holding thread, or None
  subagents,   \* TinyAgent.subagents of each object: children in insertion order
  klass,       \* class of each object: "plain", "sub" (@subagent), "async" (@subagent(is_async=True))
  pc,          \* position of each caller thread
  loc,         \* locals of the operation a thread is running
  ret,         \* outcome of the last operation of a thread
  ops,         \* operations started so far
  fresh,       \* objects whose constructor has not yet reached register
  owner,       \* TinyAgent._owner_thread_id: a caller thread, or Gone
  singleLocks, \* _transfer_to_subagent_locks: agent_id -> lock (TRUE when held)
  multiLocks,  \* _transfer_to_subagents_locks: agent_id -> lock (TRUE when held)
  files,       \* which of result.md, memory.md exist under output_location
  conduct,     \* what a run of each agent may do: return or raise, files written
  agentInfoCtx,\* _agent_info_context: the value each thread's context holds
  toolCtx,     \* _tool_context: the value each thread's context holds
  frames,      \* the bound-tool calls each thread is inside, outermost first
  locksGuard,  \* _locks_guard: holding thread, or None
  lockObj,     \* which lock object each lock map holds for each agent_id
  madeLocks,   \* every threading.Lock() made by _get_lock, with its map and agent_id
  glFrame,     \* locals of each thread's _get_lock call: lock_map, agent_id, lock
  handed,      \* every lock object _get_lock has returned, with its map and agent_id
  instance,    \* AgentManager._instance: the manager object, or None
  managerLock, \* AgentManager._lock: holding thread, or None
  managers,    \* every object made by AgentManager.__new__: which attributes it has
  wrapperInfo, \* wrapper._agent_info of the wrapper that @tool() built
  objs         \* the functions and the callables the decorators made from them

vars == <<agents, agentsLock, subagents, klass, pc, loc, ret, ops, fresh,
          owner, singleLocks, multiLocks, files, conduct,
          agentInfoCtx, toolCtx, frames,
          locksGuard, lockObj, madeLocks, glFrame, handed,
          instance, managerLock, managers, wrapperInfo, objs>>

registryState == <<agents, agentsLock, subagents, klass, fresh, owner, conduct>>
delegationState == <<singleLocks, multiLocks, files>>
toolState == <<agentInfoCtx, toolCtx, frames>>
lockState == <<locksGuard, lockObj, madeLocks, glFrame, handed>>
singletonState == <<instance, managerLock, managers>>
decoratorState == <<wrapperInfo, objs>>

\* the lock maps of the module: _transfer_to_subagent_locks, _transfer_to_subagents_locks
LockMaps == {"single", "multi"}
NoGlFrame == [lock_map |-> "none", agent_id |-> None, lock |-> None]

\* no _get_lock call has been made yet
NoLockCalls ==
  /\ locksGuard = None
  /\ lockObj = {}
  /\ madeLocks = {}
  /\ glFrame = [t \in Threads |-> NoGlFrame]
  /\ handed = {}

\* the first AgentManager() call has returned: the one manager object has
\* its table and its lock
ManagerBuilt ==
  /\ instance = 1
  /\ managerLock = None
  /\ managers = <<[agents |-> TRUE, lock |-> TRUE]>>

\* @tool() has built the wrapper of the tool function; no other decorator
\* application is followed
NothingDecorated ==
  /\ wrapperInfo = None
  /\ objs = <<>>

\* ContextVar("tool_context", default={})
NoCtx == [agent_info |-> None, func |-> "none"]

\* the identifier of a thread that has exited; the interpreter may hand the
\* same identifier to a thread started later
Gone == 0

FileKinds == {"result", "memory"}

\* the ways a run of an agent can end (the model provider and the agent's own
\* tools decide): it returns or raises, after writing some of its files
Conducts == [out : {"ok", "raised"}, w : SUBSET FileKinds]

\* hasattr(agent, "_is_async"): the class went through @subagent
HasIsAsync(a) == klass[a] \in {"sub", "async"}

\* locals of a registry operation: the argument, the call stack of
\* _unregister_recursive, and the registry as it was when the lock was taken
\* locals of a delegation: the request (from_agent in a, to_subagents in to),
\* parent_agent, the_subagent, the futures of the pool, the results dict, the
\* children called so far (ran), the names whose invocation raised (errs) and
\* whether an exception is on its way to the caller (exc)
NoLoc == [op |-> "none", a |-> None, stack |-> <<>>, before |-> {}, reach |-> {},
          subs |-> <<>>, to |-> <<>>, parent |-> None, sa |-> None, futs |-> <<>>,
          results |-> <<>>, ran |-> <<>>, errs |-> {}, exc |-> FALSE,
          under |-> None, inst |-> None]
NoRet == [op |-> "none", st |-> "none", val |-> None, from |-> None, req |-> <<>>,
          ran |-> <<>>, errs |-> {}]

Registered == DOMAIN agents

RECURSIVE SeqToSet(_)
SeqToSet(s) == IF s = <<>> THEN {} ELSE {Head(s)} \cup SeqToSet(Tail(s))

\* dict lookup self.subagents.get(name)
NoSubagentByName(p, nm) == None
GetSubagentByName(p, nm) ==
  LET hits == {i \in 1..Len(subagents[p]) : NameOf(subagents[p][i]) = nm}
  IN IF hits = {} THEN None ELSE subagents[p][CHOOSE i \in hits : TRUE]

\* ------------------------------------------------------- registry lock
\* "with self._agents_lock": blocks until the lock is free
AcquireNoExclusion(t) == agentsLock' = t
AcquireAgentsLock(t) == agentsLock = None /\ agentsLock' = t

KeepAgentsLock == UNCHANGED agentsLock
ReleaseAgentsLock == agentsLock' = None

\* A caller thread takes up the next operation.  Caller threads are
\* interchangeable, so the lowest idle one takes it.
Start(t) ==
  /\ pc[t] = "idle"
  /\ \A u \in Threads : u < t => pc[u] # "idle"
  /\ ops < MaxOps
  /\ ops' = ops + 1

\* the operation of thread t ends with outcome st
FinishRan(t, op, st, val, ran) ==
  /\ pc' = [pc EXCEPT ![t] = "idle"]
  /\ loc' = [loc EXCEPT ![t] = NoLoc]
  /\ ret' = [ret EXCEPT ![t] = [op |-> op, st |-> st, val |-> val, from |-> loc[t].a,
                                 req |-> loc[t].to, ran |-> ran, errs |-> loc[t].errs]]

Finish(t, op, st, val) == FinishRan(t, op, st, val, loc[t].ran)

\* ------------------------------------------------------- register
\* AgentManager.register(self), the last statement of TinyAgent.__init__:
\* the object is new, no other thread holds a reference to it
RegisterCall(t, a) ==
  /\ Start(t)
  /\ a \in fresh
  /\ fresh' = fresh \ {a}
  /\ pc' = [pc EXCEPT ![t] = "reg_wait"]
  /\ loc' = [loc EXCEPT ![t] = [NoLoc EXCEPT !.op = "register", !.a = a]]
  /\ UNCHANGED <<owner, conduct, delegationState, toolState, singletonState, decoratorState, lockState>>
  /\ UNCHANGED <<agents, agentsLock, subagents, klass, ret>>

RegisterAcquire(t) ==
  /\ pc[t] = "reg_wait"
  /\ AcquireAgentsLock(t)
  /\ pc' = [pc EXCEPT ![t] = "reg_scan"]
  /\ loc' = [loc EXCEPT ![t].before = Registered]
  /\ UNCHANGED <<owner, conduct, delegationState, toolState, singletonState, decoratorState, lockState>>
  /\ UNCHANGED <<agents, subagents, klass, ret, ops, fresh>>

\* the scan "for existing in self._agents.values(): if existing.name == ..."
NameTakenNever(a) == FALSE
NameTaken(a) == \E k \in DOMAIN agents : NameOf(agents[k]) = NameOf(a)

RegisterScan(t) ==
  /\ pc[t] = "reg_scan"
  /\ IF NameTaken(loc[t].a)
       THEN Finish(t, "register", "NameCollision", loc[t].a) /\ ReleaseAgentsLock
       ELSE /\ pc' = [pc EXCEPT ![t] = "reg_insert"]
            /\ UNCHANGED <<ret, loc, agentsLock>>
  /\ UNCHANGED <<owner, conduct, delegationState, toolState, singletonState, decoratorState, lockState>>
  /\ UNCHANGED <<agents, subagents, klass, ops, fresh>>

\* self._agents[tiny_agent.agent_id] = tiny_agent
InsertByName(tbl, a) ==
  [k \in DOMAIN tbl \cup {NameOf(a)} |-> IF k = NameOf(a) THEN a ELSE tbl[k]]
Insert(tbl, a) ==
  [k \in DOMAIN tbl \cup {AgentId(a)} |-> IF k = AgentId(a) THEN a ELSE tbl[k]]

RegisterInsert(t) ==
  /\ pc[t] = "reg_insert"
  /\ agents' = Insert(agents, loc[t].a)
  /\ ReleaseAgentsLock
  /\ Finish(t, "register", "ok", loc[t].a)
  /\ UNCHANGED <<owner, conduct, delegationState, toolState, singletonState, decoratorState, lockState>>
  /\ UNCHANGED <<subagents, klass, ops, fresh>>

\* ------------------------------------------------------- get_agent_by_name
\* one critical section: the first record with the name in table order, or None
FirstIn(tbl, nm) ==
  LET hits == {k \in DOMAIN tbl : NameOf(tbl[k]) = nm}
  IN IF hits = {} THEN None ELSE tbl[CHOOSE k \in hits : \A j \in hits : k <= j]

FirstByName(nm) == FirstIn(agents, nm)

GetCall(t, nm) ==
  /\ Start(t)
  /\ pc' = [pc EXCEPT ![t] = "get_wait"]
  /\ loc' = [loc EXCEPT ![t] = [NoLoc EXCEPT !.op = "get", !.a = nm]]
  /\ UNCHANGED <<owner, conduct, delegationState, toolState, singletonState, decoratorState, lockState>>
  /\ UNCHANGED <<agents, agentsLock, subagents, klass, ret, fresh>>

GetAgentByName(t) ==
  /\ pc[t] = "get_wait"
  /\ agentsLock = None
  /\ Finish(t, "get", "ok", FirstByName(loc[t].a))
  /\ UNCHANGED <<owner, conduct, delegationState, toolState, singletonState, decoratorState, lockState>>
  /\ UNCHANGED <<agents, agentsLock, subagents, klass, ops, fresh>>

\* ------------------------------------------------------- unregister
\* the records the walk of unregister can reach: from a, through the children
\* maps of records that are in the table tbl
RECURSIVE ReachFrom(_, _, _)
ReachFrom(front, seen, tbl) ==
  LET live == {x \in front : AgentId(x) \in DOMAIN tbl} \ seen
  IN IF live = {} THEN seen
     ELSE ReachFrom(UNION {SeqToSet(subagents[x]) : x \in live}, seen \cup live, tbl)

RegReach(a) == ReachFrom({a}, {}, agents)

\* every object below a in the children maps, registered or not
RECURSIVE Below(_, _)
Below(front, seen) ==
  LET new == front \ seen
  IN IF new = {} THEN seen
     ELSE Below(UNION {SeqToSet(subagents[x]) : x \in new}, seen \cup new)

Descendants(a) == Below({a}, {})

UnregisterCall(t, a) ==
  /\ Start(t)
  /\ a \notin fresh
  /\ pc' = [pc EXCEPT ![t] = "unreg_wait"]
  /\ loc' = [loc EXCEPT ![t] = [NoLoc EXCEPT !.op = "unregister", !.a = a]]
  /\ UNCHANGED <<owner, conduct, delegationState, toolState, singletonState, decoratorState, lockState>>
  /\ UNCHANGED <<agents, agentsLock, subagents, klass, ret, fresh>>

UnregisterAcquire(t) ==
  /\ pc[t] = "unreg_wait"
  /\ AcquireAgentsLock(t)
  /\ pc' = [pc EXCEPT ![t] = "unreg"]
  /\ loc' = [loc EXCEPT ![t].stack = <<[id |-> AgentId(loc[t].a), i |-> 0, n |-> 0]>>,
                         ![t].before = Registered,
                         ![t].reach = RegReach(loc[t].a),
                         ![t].subs = subagents]
  /\ UNCHANGED <<owner, conduct, delegationState, toolState, singletonState, decoratorState, lockState>>
  /\ UNCHANGED <<agents, subagents, klass, ret, ops, fresh>>

\* del self._agents[agent_id]
RemoveNothing(tbl, k) == tbl
Remove(tbl, k) == [j \in DOMAIN tbl \ {k} |-> tbl[j]]

Pop(s) == SubSeq(s, 1, Len(s) - 1)

\* agent = self._agents.get(agent_id); "if agent is not None"
FoundAlways(tbl, id) == TRUE
Found(tbl, id) == id \in DOMAIN tbl

\* the children the loop "for sa in agent.subagents.values()" visits
NoChildren(a) == <<>>
ChildrenOf(a) == subagents[a]

\* one step of _unregister_recursive in the innermost call frame [id, i, n]:
\*   i = 0            just entered: agent = self._agents.get(agent_id); None returns,
\*                    otherwise the loop starts on a dict of n children
\*   1 <= i <= n      the loop calls _unregister_recursive on child i
\*   i > n            del self._agents[agent_id], return
\* The dict iterator raises RuntimeError at its next step when the dict has
\* changed size since the loop started.  The call that empties the stack
\* leaves the "with" block of unregister.
UnregisterStep(t) ==
  /\ pc[t] = "unreg"
  /\ LET stack == loc[t].stack
         top == stack[Len(stack)]
         return(tbl) ==
           /\ agents' = tbl
           /\ IF Len(stack) = 1
                THEN Finish(t, "unregister", "ok", loc[t].a) /\ ReleaseAgentsLock
                ELSE /\ loc' = [loc EXCEPT ![t].stack = Pop(stack)]
                     /\ UNCHANGED <<pc, ret, agentsLock>>
         raise(err) ==
           \* the exception unwinds every frame; "with" releases the lock
           /\ Finish(t, "unregister", err, loc[t].a)
           /\ ReleaseAgentsLock
           /\ UNCHANGED agents
     IN IF top.i = 0
          THEN IF ~Found(agents, top.id)
                 THEN return(agents)
                 ELSE /\ loc' = [loc EXCEPT ![t].stack[Len(stack)] =
                                   [id |-> top.id, i |-> 1,
                                    n |-> Len(ChildrenOf(top.id))]]
                      /\ UNCHANGED <<agents, pc, ret, agentsLock>>
          ELSE IF Len(ChildrenOf(top.id)) # top.n
            THEN raise("RuntimeError")
            ELSE IF top.i <= top.n
              THEN IF Len(stack) >= RecursionLimit
                     THEN raise("RecursionError")
                     ELSE /\ loc' = [loc EXCEPT ![t].stack =
                                Append([stack EXCEPT ![Len(stack)].i = top.i + 1],
                                       [id |-> AgentId(ChildrenOf(top.id)[top.i]),
                                        i |-> 0, n |-> 0])]
                          /\ UNCHANGED <<agents, pc, ret, agentsLock>>
              ELSE IF top.id \in DOMAIN agents
                     THEN return(Remove(agents, top.id))
                     ELSE raise("KeyError")
  /\ UNCHANGED <<owner, conduct, delegationState, toolState, singletonState, decoratorState, lockState>>
  /\ UNCHANGED <<subagents, klass, ops, fresh>>

\* ------------------------------------------------------- append_subagents
\* TinyAgent.append_subagents(subagent): no lock, one dict store
AppendSubagents(t, p, c) ==
  /\ Start(t)
  /\ p \notin fresh /\ c \notin fresh
  /\ IF ~HasIsAsync(c)
       THEN /\ ret' = [ret EXCEPT ![t] = [op |-> "append", st |-> "TypeError", val |-> None]]
            /\ UNCHANGED subagents
       ELSE IF NameOf(c) = NameOf(p) \/ GetSubagentByName(p, NameOf(c)) # None
         THEN /\ ret' = [ret EXCEPT ![t] = [op |-> "append", st |-> "ValueError", val |-> None]]
              /\ UNCHANGED subagents
         ELSE /\ ret' = [ret EXCEPT ![t] = [op |-> "append", st |-> "ok", val |-> None]]
              /\ subagents' = [subagents EXCEPT ![p] = Append(@, c)]
  /\ UNCHANGED <<owner, conduct, delegationState, toolState, singletonState, decoratorState, lockState>>
  /\ UNCHANGED <<agents, agentsLock, klass, pc, loc, fresh>>

\* ------------------------------------------------------- registry specification
Table(S) == [k \in S |-> k]

\* Three agents with distinct names were constructed on earlier runs of the
\* constructor; the others are about to be.  The last shape is what
\* unregister(2); 2.append_subagents(3) leaves of a chain built bottom-up.
InitRegistry ==
  /\ klass = [a \in Ids |-> IF a = 1 THEN "plain" ELSE IF a % 2 = 0 THEN "sub" ELSE "async"]
  /\ \/ /\ subagents = [a \in Ids |-> IF a = 1 THEN <<2>> ELSE IF a = 2 THEN <<3>> ELSE <<>>]
        /\ agents = Table({1, 2, 3})
        /\ fresh = Ids \ {1, 2, 3}
     \/ /\ subagents = [a \in Ids |-> IF a = 1 THEN <<2, 3>> ELSE <<>>]
        /\ agents = Table({1, 2, 3})
        /\ fresh = Ids \ {1, 2, 3}
     \/ /\ subagents = [a \in Ids |-> <<>>]
        /\ agents = Table({2, 3})
        /\ fresh = Ids \ {2, 3}
     \/ /\ subagents = [a \in Ids |-> IF a = 1 THEN <<2>> ELSE IF a = 2 THEN <<3>> ELSE <<>>]
        /\ agents = Table({1, 3})
        /\ fresh = Ids \ {1, 2, 3}
     \/ /\ subagents = [a \in Ids |-> IF a = 1 THEN <<2, 3>> ELSE IF a = 3 THEN <<4>>
                                       ELSE IF a = 4 THEN <<3>> ELSE <<>>]
        /\ agents = Table({1, 2, 3, 4})
        /\ fresh = Ids \ {1, 2, 3, 4}
  /\ agentsLock = None
  /\ owner = [a \in Ids |-> 1]
  /\ conduct = [a \in Ids |-> Conducts]
  /\ singleLocks = <<>> /\ multiLocks = <<>>
  /\ files = [a \in Ids |-> {}]
  /\ agentInfoCtx = [t \in Threads |-> None]
  /\ toolCtx = [t \in Threads |-> NoCtx]
  /\ frames = [t \in Threads |-> <<>>]
  /\ NoLockCalls
  /\ ManagerBuilt
  /\ NothingDecorated
  /\ pc = [t \in Threads |-> "idle"]
  /\ loc = [t \in Threads |-> NoLoc]
  /\ ret = [t \in Threads |-> NoRet]
  /\ ops = 0

NextRegistry ==
  \E t \in Threads :
    \/ \E a \in Ids : RegisterCall(t, a)
    \/ RegisterAcquire(t)
    \/ RegisterScan(t)
    \/ RegisterInsert(t)
    \/ \E nm \in Names : GetCall(t, nm)
    \/ GetAgentByName(t)
    \/ \E a \in Ids : UnregisterCall(t, a)
    \/ UnregisterAcquire(t)
    \/ UnregisterStep(t)
    \/ \E p, c \in Ids : AppendSubagents(t, p, c)

SpecRegistry == InitRegistry /\ [][NextRegistry]_vars

\* ------------------------------------------------------- delegation locks
\* _get_lock(lock_map, agent_id): one critical section under _locks_guard
GetLock(lockMap, id) ==
  IF id \in DOMAIN lockMap THEN lockMap
  ELSE [k \in DOMAIN lockMap \cup {id} |-> IF k = id THEN FALSE ELSE lockMap[k]]

\* lock.acquire(blocking=False) fails when the lock is held
HeldNever(lockMap, id) == FALSE
HeldAnyParent(lockMap, id) == \E k \in DOMAIN lockMap : lockMap[k]
Held(lockMap, id) == lockMap[id]

AcquireForgotten(lockMap, id) == lockMap
Acquire(lockMap, id) == [lockMap EXCEPT ![id] = TRUE]

\* "finally: lock.release()"
ReleaseForgotten(lockMap, id) == lockMap
Release(lockMap, id) == [lockMap EXCEPT ![id] = FALSE]

\* "try: ... finally: lock.release()": the lock is released when the block is
\* left by return and when it is left by an exception (raised = TRUE)
ReleaseOnReturnOnly(lockMap, id, raised) == IF raised THEN lockMap ELSE Release(lockMap, id)
Finally(lockMap, id, raised) == Release(lockMap, id)

\* ------------------------------------------------------- result resolution

\* _org_result(sub_agent): result.md, else memory.md, else the placeholder
OrgResultMemoryFirst(fs, sa) ==
  IF "memory" \in fs[sa] THEN [kind |-> "memory", agent |-> sa]
  ELSE IF "result" \in fs[sa] THEN [kind |-> "result", agent |-> sa]
  ELSE [kind |-> "ignore", agent |-> sa]
OrgResult(fs, sa) ==
  IF "result" \in fs[sa] THEN [kind |-> "result", agent |-> sa]
  ELSE IF "memory" \in fs[sa] THEN [kind |-> "memory", agent |-> sa]
  ELSE [kind |-> "ignore", agent |-> sa]

\* ------------------------------------------------------- transfer_to_subagent
TsCall(t, from, to) ==
  /\ Start(t)
  /\ pc' = [pc EXCEPT ![t] = "ts_get"]
  /\ loc' = [loc EXCEPT ![t] = [NoLoc EXCEPT !.op = "ts", !.a = from, !.to = <<to>>]]
  /\ UNCHANGED <<registryState, toolState, singletonState, decoratorState, lockState, delegationState, ret>>

\* parent_agent = AgentManager().get_agent_by_name(from_agent); None has no
\* agent_id, so the next statement raises AttributeError
ResolveParent(t, op, next) ==
  /\ agentsLock = None
  /\ LET p == FirstByName(loc[t].a)
     IN IF p = None
          THEN Finish(t, op, "AttributeError", None)
          ELSE /\ pc' = [pc EXCEPT ![t] = next]
               /\ loc' = [loc EXCEPT ![t].parent = p]
               /\ UNCHANGED ret
  /\ UNCHANGED <<registryState, toolState, singletonState, decoratorState, lockState, delegationState, ops>>

TsResolveParent(t) == pc[t] = "ts_get" /\ ResolveParent(t, "ts", "ts_lock")

TsGetLock(t) ==
  /\ pc[t] = "ts_lock"
  /\ locksGuard = None
  /\ singleLocks' = GetLock(singleLocks, AgentId(loc[t].parent))
  /\ pc' = [pc EXCEPT ![t] = "ts_try"]
  /\ UNCHANGED <<registryState, toolState, singletonState, decoratorState, lockState, multiLocks, files, loc, ret, ops>>

BusySingle == [kind |-> "busy", agent |-> None]

TsTryLock(t) ==
  /\ pc[t] = "ts_try"
  /\ LET id == AgentId(loc[t].parent)
     IN IF Held(singleLocks, id)
          THEN Finish(t, "ts", "Busy", BusySingle) /\ UNCHANGED singleLocks
          ELSE /\ singleLocks' = Acquire(singleLocks, id)
               /\ pc' = [pc EXCEPT ![t] = "ts_body"]
               /\ UNCHANGED <<loc, ret>>
  /\ UNCHANGED <<registryState, toolState, singletonState, decoratorState, lockState, multiLocks, files, ops>>

\* hasattr(the_subagent, "_is_async")
SingleTargetAsFanout(sa) == klass[sa] = "async"
SingleTarget(sa) == HasIsAsync(sa)

\* TinyAgent.__call__ on thread identifier th: the owner-thread check
OwnerCheck(sa, th) == owner[sa] = th

\* the try block up to the call the_subagent(task); every raise passes
\* through "finally: lock.release()"
TsValidate(t) ==
  /\ pc[t] = "ts_body"
  /\ LET id == AgentId(loc[t].parent)
         sa == GetSubagentByName(loc[t].parent, loc[t].to[1])
         raise(err, ran) ==
           /\ FinishRan(t, "ts", err, None, ran)
           /\ singleLocks' = Finally(singleLocks, id, TRUE)
     IN IF sa = None THEN raise("NotFound", <<>>)
        ELSE IF ~SingleTarget(sa) THEN raise("CapabilityError", <<>>)
        ELSE IF ~OwnerCheck(sa, t) THEN raise("ThreadAffinityViolation", <<sa>>)
        ELSE /\ pc' = [pc EXCEPT ![t] = "ts_run"]
             /\ loc' = [loc EXCEPT ![t].sa = sa, ![t].ran = <<sa>>]
             /\ UNCHANGED <<ret, singleLocks>>
  /\ UNCHANGED <<registryState, toolState, singletonState, decoratorState, lockState, multiLocks, files, ops>>

\* the child's run ends: it returns or raises, having written any of its
\* files; then "return _org_result(the_subagent)" and the finally block
TsChildEnds(t) ==
  /\ pc[t] = "ts_run"
  /\ \A u \in Threads : loc[u].under # t
  /\ \E c \in conduct[loc[t].sa] :
       LET sa == loc[t].sa
           fs == [files EXCEPT ![sa] = @ \cup c.w]
       IN /\ files' = fs
          /\ IF c.out = "ok"
               THEN Finish(t, "ts", "ok", OrgResult(fs, sa))
               ELSE Finish(t, "ts", "ChildExecutionError", None)
          /\ singleLocks' = Finally(singleLocks, AgentId(loc[t].parent), c.out # "ok")
  /\ UNCHANGED <<registryState, toolState, singletonState, decoratorState, lockState, multiLocks, ops>>

\* ------------------------------------------------------- transfer_to_subagents
RECURSIVE SeqsUpTo(_)
SeqsUpTo(n) ==
  IF n = 0 THEN {<<>>}
  ELSE LET shorter == SeqsUpTo(n - 1)
       IN shorter \cup {Append(q, nm) : q \in {x \in shorter : Len(x) = n - 1}, nm \in Names}

Requests == SeqsUpTo(MaxFan)

TmCall(t, from, req) ==
  /\ Start(t)
  /\ pc' = [pc EXCEPT ![t] = "tm_get"]
  /\ loc' = [loc EXCEPT ![t] = [NoLoc EXCEPT !.op = "tm", !.a = from, !.to = req]]
  /\ UNCHANGED <<registryState, toolState, singletonState, decoratorState, lockState, delegationState, ret>>

TmResolveParent(t) == pc[t] = "tm_get" /\ ResolveParent(t, "tm", "tm_lock")

TmGetLock(t) ==
  /\ pc[t] = "tm_lock"
  /\ locksGuard = None
  /\ multiLocks' = GetLock(multiLocks, AgentId(loc[t].parent))
  /\ pc' = [pc EXCEPT ![t] = "tm_try"]
  /\ UNCHANGED <<registryState, toolState, singletonState, decoratorState, lockState, singleLocks, files, loc, ret, ops>>

\* {"__busy__": "... skipped"}
BusyKey == 0
BusyMapPerChild == [k \in Names |-> [kind |-> "busy", agent |-> None]]
BusyMap == [k \in {BusyKey} |-> [kind |-> "busy", agent |-> None]]

TmTryLock(t) ==
  /\ pc[t] = "tm_try"
  /\ LET id == AgentId(loc[t].parent)
     IN IF Held(multiLocks, id)
          THEN Finish(t, "tm", "Busy", BusyMap) /\ UNCHANGED multiLocks
          ELSE /\ multiLocks' = Acquire(multiLocks, id)
               /\ pc' = [pc EXCEPT ![t] = "tm_body"]
               /\ UNCHANGED <<loc, ret>>
  /\ UNCHANGED <<registryState, toolState, singletonState, decoratorState, lockState, singleLocks, files, ops>>

\* getattr(sa, "_is_async", False)
FanoutTargetAsSingle(sa) == HasIsAsync(sa)
FanoutTarget(sa) == klass[sa] = "async"

Min(x, y) == IF x <= y THEN x ELSE y

\* max_workers = min(len(the_subagents), os.cpu_count() or 1)
MaxWorkersUnbounded(n) == n
MaxWorkers(n) == Min(n, CpuCount)

\* the loop "for name in to_subagents" that builds the_subagents, then the
\* pool: ThreadPoolExecutor(max_workers=0) raises ValueError; otherwise every
\* (name, sa) is submitted in list order
TmValidate(t) ==
  /\ pc[t] = "tm_body"
  /\ LET id == AgentId(loc[t].parent)
         req == loc[t].to
         sub(i) == GetSubagentByName(loc[t].parent, req[i])
         bad == {i \in 1..Len(req) : sub(i) = None \/ ~FanoutTarget(sub(i))}
         first == CHOOSE i \in bad : \A j \in bad : i <= j
         raise(err) ==
           /\ Finish(t, "tm", err, None)
           /\ multiLocks' = Finally(multiLocks, id, TRUE)
     IN IF bad # {}
          THEN raise(IF sub(first) = None THEN "NotFound" ELSE "CapabilityError")
          ELSE IF MaxWorkers(Len(req)) = 0
            THEN raise("ValueError")
            ELSE /\ loc' = [loc EXCEPT ![t].futs =
                              [i \in 1..Len(req) |->
                                 [nm |-> req[i], sa |-> sub(i), st |-> "pending"]]]
                 /\ pc' = [pc EXCEPT ![t] = "tm_pool"]
                 /\ UNCHANGED <<ret, multiLocks>>
  /\ UNCHANGED <<registryState, toolState, singletonState, decoratorState, lockState, singleLocks, files, ops>>

\* the loop over as_completed: results[name] = future.result(), or the error
\* string when the future raised an Exception
DropRaised(results, nm, sa, out) ==
  IF out = "ok"
    THEN [k \in DOMAIN results \cup {nm} |->
            IF k = nm THEN [kind |-> "returned", agent |-> sa] ELSE results[k]]
    ELSE results
Collect(results, nm, sa, out) ==
  [k \in DOMAIN results \cup {nm} |->
     IF k = nm THEN [kind |-> IF out = "ok" THEN "returned" ELSE "error", agent |-> sa]
     ELSE results[k]]

\* "except Exception" catches what a child's future raised
CaughtNever(out) == FALSE
Caught(out) == TRUE

Settle(l, i, out) ==
  LET f == l.futs[i]
      seen == out = "ok" \/ Caught(out)
  IN [l EXCEPT !.futs[i].st = "done",
               !.results = IF seen THEN Collect(l.results, f.nm, f.sa, out) ELSE @,
               !.errs = IF out = "ok" THEN @ ELSE @ \cup {f.nm},
               !.exc = @ \/ ~seen]

Running(l) == {i \in 1..Len(l.futs) : l.futs[i].st = "running"}

\* a worker thread of the pool takes the oldest queued work item and calls
\* sa(task).  The worker is not a caller thread: the owner check passes only
\* for a child whose owner has exited and whose identifier the worker got, and
\* no two live workers have one identifier.
FutureStart(t, i) ==
  /\ pc[t] = "tm_pool"
  /\ i \in 1..Len(loc[t].futs)
  /\ loc[t].futs[i].st = "pending"
  /\ \A j \in 1..(i - 1) : loc[t].futs[j].st # "pending"
  /\ Cardinality(Running(loc[t])) < MaxWorkers(Len(loc[t].futs))
  /\ LET sa == loc[t].futs[i].sa
         l == [loc[t] EXCEPT !.ran = Append(@, sa)]
         free == \A u \in Threads : \A j \in Running(loc[u]) : loc[u].futs[j].sa # sa
     IN \/ /\ owner[sa] = Gone /\ free
           /\ loc' = [loc EXCEPT ![t] = [l EXCEPT !.futs[i].st = "running"]]
        \/ loc' = [loc EXCEPT ![t] = Settle(l, i, "affinity")]
  /\ UNCHANGED <<registryState, toolState, singletonState, decoratorState, lockState, delegationState, pc, ret, ops>>

\* a child's run on a worker ends: it returns or raises, having written any
\* of its files
FutureEnds(t, i) ==
  /\ pc[t] = "tm_pool"
  /\ i \in Running(loc[t])
  /\ \E c \in conduct[loc[t].futs[i].sa] :
       /\ files' = [files EXCEPT ![loc[t].futs[i].sa] = @ \cup c.w]
       /\ loc' = [loc EXCEPT ![t] = Settle(loc[t], i, c.out)]
  /\ UNCHANGED <<registryState, toolState, singletonState, decoratorState, lockState, singleLocks, multiLocks, pc, ret, ops>>

\* "for name in list(results.keys()): results[name] = _org_result(sa)"
KeepCollected(results, p) == results
Reresolve(results, p) ==
  [nm \in DOMAIN results |-> OrgResult(files, GetSubagentByName(p, nm))]

\* the loop over as_completed and the exit of "with ThreadPoolExecutor(...)"
\* (shutdown(wait=True)) wait for every future
NoWait(l) == TRUE
AllDone(l) == \A i \in 1..Len(l.futs) : l.futs[i].st = "done"

\* every future is done: the "with" block ends, the results are resolved
\* again, the finally block releases the lock
TmReturn(t) ==
  /\ pc[t] = "tm_pool"
  /\ AllDone(loc[t])
  /\ IF loc[t].exc
       THEN Finish(t, "tm", "ChildExecutionError", None)
       ELSE Finish(t, "tm", "ok", Reresolve(loc[t].results, loc[t].parent))
  /\ multiLocks' = Finally(multiLocks, AgentId(loc[t].parent), loc[t].exc)
  /\ UNCHANGED <<registryState, toolState, singletonState, decoratorState, lockState, singleLocks, files, ops>>

\* ------------------------------------------------------- delegation specification
\* Agent 1 is a registered parent, constructed on thread 1.  Its children are
\* agent 2, of an @subagent(is_async=True) class, constructed on a thread that
\* has exited, and agent 3, of an @subagent class, constructed on thread 1.
\* No agent has the last name.  A run of a child returns after writing result.md,
\* or raises.
InitDelegation ==
  /\ agents = Table({1, 2, 3})
  /\ fresh = Ids \ {1, 2, 3}
  /\ subagents = [a \in Ids |-> IF a = 1 THEN <<2, 3>> ELSE <<>>]
  /\ klass = [a \in Ids |-> IF a = 1 THEN "plain" ELSE IF a = 3 THEN "sub" ELSE "async"]
  /\ owner = [a \in Ids |-> IF a = 2 THEN Gone ELSE 1]
  /\ conduct = [a \in Ids |-> {[out |-> "ok", w |-> {"result"}],
                               [out |-> "raised", w |-> {}]}]
  /\ agentsLock = None
  /\ singleLocks = <<>> /\ multiLocks = <<>>
  /\ files = [a \in Ids |-> {}]
  /\ agentInfoCtx = [t \in Threads |-> None]
  /\ toolCtx = [t \in Threads |-> NoCtx]
  /\ frames = [t \in Threads |-> <<>>]
  /\ NoLockCalls
  /\ ManagerBuilt
  /\ NothingDecorated
  /\ ret = [t \in Threads |-> NoRet]
  /\ pc = [t \in Threads |-> "idle"]
  /\ loc = [t \in Threads |-> NoLoc]
  /\ ops = 0

\* the names a call is made with: the parent, a registered agent without
\* children, a name no agent has; the two children and a name that is no child
FromNames == {NameOf(1), NameOf(2), NumNames}
ToNames == {NameOf(2), NameOf(3), NameOf(1)}
ShortRequests == {<<>>} \cup {<<nm>> : nm \in ToNames}

NextDelegation ==
  \E t \in Threads :
    \/ \E from \in FromNames, to \in ToNames : TsCall(t, from, to)
    \/ TsResolveParent(t)
    \/ TsGetLock(t)
    \/ TsTryLock(t)
    \/ TsValidate(t)
    \/ TsChildEnds(t)
    \/ \E from \in FromNames, req \in ShortRequests : TmCall(t, from, req)
    \/ TmResolveParent(t)
    \/ TmGetLock(t)
    \/ TmTryLock(t)
    \/ TmValidate(t)
    \/ \E i \in 1..MaxFan : FutureStart(t, i)
    \/ \E i \in 1..MaxFan : FutureEnds(t, i)
    \/ TmReturn(t)

SpecDelegation == InitDelegation /\ [][NextDelegation]_vars

\* the steps of a delegation call of thread t after its entry: the thread
\* runs on, the pool's workers take queued futures, a called child ends
DelegationStep(t) ==
  \/ TsResolveParent(t)
  \/ TsGetLock(t)
  \/ TsTryLock(t)
  \/ TsValidate(t)
  \/ TsChildEnds(t)
  \/ TmResolveParent(t)
  \/ TmGetLock(t)
  \/ TmTryLock(t)
  \/ TmValidate(t)
  \/ \E i \in 1..MaxFan : FutureStart(t, i)
  \/ \E i \in 1..MaxFan : FutureEnds(t, i)
  \/ TmReturn(t)

\* calls of parent 1: for a child, for an unknown name, for a one-child list
NextCycle ==
  \E t \in Threads :
    \/ \E to \in {NameOf(3), NameOf(1)} : TsCall(t, NameOf(1), to)
    \/ TmCall(t, NameOf(1), <<NameOf(2)>>)
    \/ DelegationStep(t)

\* every thread in a call is scheduled and every called child ends
SpecCycle ==
  InitDelegation /\ [][NextCycle]_vars /\ \A t \in Threads : WF_vars(DelegationStep(t))

\* ------------------------------------------------------- _get_lock
\* "with _locks_guard": the thread enters when no thread is inside
EnterUnguarded(t) == locksGuard' = t
EnterLocksGuard(t) == locksGuard = None /\ locksGuard' = t

\* the object lock map m holds for agent_id id, or None
LockOf(m, id) ==
  IF \E e \in lockObj : e.lock_map = m /\ e.agent_id = id
    THEN (CHOOSE e \in lockObj : e.lock_map = m /\ e.agent_id = id).lock
    ELSE None

\* a thread calls _get_lock(lock_map, agent_id)
GetLockCall(t, m, id) ==
  /\ Start(t)
  /\ pc' = [pc EXCEPT ![t] = "gl_guard"]
  /\ glFrame' = [glFrame EXCEPT ![t] = [lock_map |-> m, agent_id |-> id, lock |-> None]]
  /\ UNCHANGED <<registryState, delegationState, toolState, singletonState, decoratorState, loc, ret,
                 locksGuard, lockObj, madeLocks, handed>>

\* with _locks_guard:
GetLockEnter(t) ==
  /\ pc[t] = "gl_guard"
  /\ EnterLocksGuard(t)
  /\ pc' = [pc EXCEPT ![t] = "gl_get"]
  /\ UNCHANGED <<registryState, delegationState, toolState, singletonState, decoratorState, loc, ret, ops,
                 lockObj, madeLocks, glFrame, handed>>

\* lock = lock_map.get(agent_id); if lock is None:
GetLockLookup(t) ==
  /\ pc[t] = "gl_get"
  /\ LET lock == LockOf(glFrame[t].lock_map, glFrame[t].agent_id)
     IN /\ glFrame' = [glFrame EXCEPT ![t].lock = lock]
        /\ pc' = [pc EXCEPT ![t] = IF lock = None THEN "gl_make" ELSE "gl_ret"]
  /\ UNCHANGED <<registryState, delegationState, toolState, singletonState, decoratorState, loc, ret, ops,
                 locksGuard, lockObj, madeLocks, handed>>

\* lock = threading.Lock(); lock_map[agent_id] = lock
GetLockMake(t) ==
  /\ pc[t] = "gl_make"
  /\ LET m == glFrame[t].lock_map
         id == glFrame[t].agent_id
         new == [lock_map |-> m, agent_id |-> id, lock |-> Cardinality(madeLocks) + 1]
         fresh_entry(lockMap) ==
           [k \in DOMAIN lockMap \cup {id} |-> IF k = id THEN FALSE ELSE lockMap[k]]
     IN /\ madeLocks' = madeLocks \cup {new}
        /\ lockObj' = {e \in lockObj : ~(e.lock_map = m /\ e.agent_id = id)} \cup {new}
        /\ glFrame' = [glFrame EXCEPT ![t].lock = new.lock]
        /\ IF m = "single"
             THEN singleLocks' = fresh_entry(singleLocks) /\ UNCHANGED multiLocks
             ELSE multiLocks' = fresh_entry(multiLocks) /\ UNCHANGED singleLocks
  /\ pc' = [pc EXCEPT ![t] = "gl_ret"]
  /\ UNCHANGED <<registryState, toolState, singletonState, decoratorState, files, loc, ret, ops, locksGuard, handed>>

\* return lock, leaving the with block
GetLockReturn(t) ==
  /\ pc[t] = "gl_ret"
  /\ handed' = handed \cup {glFrame[t]}
  /\ locksGuard' = IF locksGuard = t THEN None ELSE locksGuard
  /\ glFrame' = [glFrame EXCEPT ![t] = NoGlFrame]
  /\ pc' = [pc EXCEPT ![t] = "idle"]
  /\ ret' = [ret EXCEPT ![t] = [NoRet EXCEPT !.op = "get_lock", !.st = "ok",
                                             !.val = glFrame[t].lock]]
  /\ UNCHANGED <<registryState, delegationState, toolState, singletonState, decoratorState, loc, ops, lockObj, madeLocks>>

\* the parents whose locks are asked for
LockParents == {1, 2}

InitLocks ==
  /\ agents = Table({1, 2, 3})
  /\ fresh = Ids \ {1, 2, 3}
  /\ subagents = [a \in Ids |-> IF a = 1 THEN <<3>> ELSE <<>>]
  /\ klass = [a \in Ids |-> IF a = 3 THEN "async" ELSE "plain"]
  /\ owner = [a \in Ids |-> 1]
  /\ conduct = [a \in Ids |-> {[out |-> "ok", w |-> {"result"}]}]
  /\ agentsLock = None
  /\ singleLocks = <<>> /\ multiLocks = <<>>
  /\ files = [a \in Ids |-> {}]
  /\ agentInfoCtx = [t \in Threads |-> None]
  /\ toolCtx = [t \in Threads |-> NoCtx]
  /\ frames = [t \in Threads |-> <<>>]
  /\ NoLockCalls
  /\ ManagerBuilt
  /\ NothingDecorated
  /\ pc = [t \in Threads |-> "idle"]
  /\ loc = [t \in Threads |-> NoLoc]
  /\ ret = [t \in Threads |-> NoRet]
  /\ ops = 0

NextLocks ==
  \E t \in Threads :
    \/ \E m \in LockMaps, id \in LockParents : GetLockCall(t, m, AgentId(id))
    \/ GetLockEnter(t)
    \/ GetLockLookup(t)
    \/ GetLockMake(t)
    \/ GetLockReturn(t)

SpecLocks == InitLocks /\ [][NextLocks]_vars

\* ------------------------------------------------------- construction
\* _append_subagents(dict(), ups) of the constructor of a: the exception of
\* the first element of ups that fails a check, or "ok"
AppendSubagentsCheck(a, ups) ==
  LET bad(i) ==
        \/ ~HasIsAsync(ups[i])
        \/ NameOf(ups[i]) = NameOf(a)
        \/ \E j \in 1..Len(ups) : ups[j] # ups[i] /\ NameOf(ups[j]) = NameOf(ups[i])
      fails == {i \in 1..Len(ups) : bad(i)}
  IN IF fails = {} THEN "ok"
     ELSE LET i == CHOOSE k \in fails : \A j \in fails : k <= j
          IN IF ~HasIsAsync(ups[i]) THEN "TypeError" ELSE "ValueError"

\* {subagent.name: subagent for subagent in ups}: one entry per name, in the
\* order of first occurrence
RECURSIVE DictOf(_)
DictOf(ups) ==
  IF ups = <<>> THEN <<>>
  ELSE LET rest == DictOf(SubSeq(ups, 1, Len(ups) - 1))
           last == ups[Len(ups)]
           same == {i \in 1..Len(rest) : NameOf(rest[i]) = NameOf(last)}
       IN IF same = {} THEN Append(rest, last)
          ELSE [rest EXCEPT ![CHOOSE i \in same : TRUE] = last]

\* TinyAgent(subagents=ups) for the new object a: the children map is built,
\* then AgentManager().register(self); a failed check ends the construction
ConstructCall(t, a, ups) ==
  /\ Start(t)
  /\ a \in fresh
  /\ \A i \in 1..Len(ups) : ups[i] \notin fresh
  /\ fresh' = fresh \ {a}
  /\ IF AppendSubagentsCheck(a, ups) = "ok"
       THEN /\ subagents' = [subagents EXCEPT ![a] = DictOf(ups)]
            /\ pc' = [pc EXCEPT ![t] = "reg_wait"]
            /\ loc' = [loc EXCEPT ![t] = [NoLoc EXCEPT !.op = "register", !.a = a]]
            /\ UNCHANGED ret
       ELSE /\ ret' = [ret EXCEPT ![t] = [NoRet EXCEPT !.op = "construct",
                                            !.st = AppendSubagentsCheck(a, ups),
                                            !.val = a, !.req = ups]]
            /\ UNCHANGED <<subagents, pc, loc>>
  /\ UNCHANGED <<owner, conduct, delegationState, toolState, singletonState, decoratorState, lockState>>
  /\ UNCHANGED <<agents, agentsLock, klass>>

\* ------------------------------------------------------- the whole system
\* the child that thread t is running calls transfer_to_subagent itself: the
\* nested call runs on a frame of its own (thread u stands for it) and the
\* child's run does not end before it has
NestedTsCall(u, t, from, to) ==
  /\ pc[t] = "ts_run"
  /\ \A v \in Threads : loc[v].under # t
  /\ Start(u)
  /\ pc' = [pc EXCEPT ![u] = "ts_get"]
  /\ loc' = [loc EXCEPT ![u] = [NoLoc EXCEPT !.op = "ts", !.a = from, !.to = <<to>>,
                                            !.under = t]]
  /\ UNCHANGED <<registryState, toolState, singletonState, decoratorState, lockState, delegationState, ret>>

\* the steps of thread t after the entry of whatever call it is in
SystemStep(t) ==
  \/ RegisterAcquire(t)
  \/ RegisterScan(t)
  \/ RegisterInsert(t)
  \/ GetAgentByName(t)
  \/ UnregisterAcquire(t)
  \/ UnregisterStep(t)
  \/ GetLockEnter(t)
  \/ GetLockLookup(t)
  \/ GetLockMake(t)
  \/ GetLockReturn(t)
  \/ DelegationStep(t)

\* parent 1 with the parallel-capable child 2 and the child 3
InitSystem == InitDelegation

\* registry calls, delegations of parent 1, a delegation nested in the run of
\* child 3, and a call of _get_lock, in any interleaving
NextSystem ==
  \E t \in Threads :
    \/ RegisterCall(t, 4)
    \/ GetCall(t, NameOf(1))
    \/ \E a \in {1, 3} : UnregisterCall(t, a)
    \/ TsCall(t, NameOf(1), NameOf(3))
    \/ TmCall(t, NameOf(1), <<NameOf(2)>>)
    \/ \E u \in Threads : NestedTsCall(t, u, NameOf(1), NameOf(3))
    \/ GetLockCall(t, "single", AgentId(1))
    \/ SystemStep(t)

\* every thread inside a call is scheduled, and every called child ends
SpecSystem ==
  InitSystem /\ [][NextSystem]_vars /\ \A t \in Threads : WF_vars(SystemStep(t))

\* ------------------------------------------------------- fan-out specification
\* One call transfer_to_subagents(from, req, task) has just been made on
\* thread 1, for every from and every request list of up to MaxFan names.
\* Agent 1 is a registered parent with the children 2, 3 and 4, whose owner
\* threads have exited; all three are @subagent(is_async=True), or agent 2 is
\* a plain @subagent constructed on thread 1; or all three are
\* @subagent(is_async=True) and were constructed, like the parent, on thread 1,
\* the thread that makes the call.  A run of a child may end in every way.
InitFanout ==
  /\ agents = Table({1, 2, 3, 4})
  /\ fresh = Ids \ {1, 2, 3, 4}
  /\ subagents = [a \in Ids |-> IF a = 1 THEN <<2, 3, 4>> ELSE <<>>]
  /\ \/ /\ klass = [a \in Ids |-> IF a = 1 THEN "plain" ELSE "async"]
        /\ owner = [a \in Ids |-> IF a = 1 THEN 1 ELSE Gone]
     \/ /\ klass = [a \in Ids |-> IF a = 1 THEN "plain" ELSE IF a = 2 THEN "sub" ELSE "async"]
        /\ owner = [a \in Ids |-> IF a <= 2 THEN 1 ELSE Gone]
     \/ /\ klass = [a \in Ids |-> IF a = 1 THEN "plain" ELSE "async"]
        /\ owner = [a \in Ids |-> 1]
  /\ conduct = [a \in Ids |-> Conducts]
  /\ agentsLock = None
  /\ singleLocks = <<>> /\ multiLocks = <<>>
  /\ files = [a \in Ids |-> {}]
  /\ agentInfoCtx = [t \in Threads |-> None]
  /\ toolCtx = [t \in Threads |-> NoCtx]
  /\ frames = [t \in Threads |-> <<>>]
  /\ NoLockCalls
  /\ ManagerBuilt
  /\ NothingDecorated
  /\ ret = [t \in Threads |-> NoRet]
  /\ \E from \in Names, req \in Requests :
       /\ pc = [t \in Threads |-> IF t = 1 THEN "tm_get" ELSE "idle"]
       /\ loc = [t \in Threads |->
                   IF t = 1 THEN [NoLoc EXCEPT !.op = "tm", !.a = from, !.to = req]
                   ELSE NoLoc]
  /\ ops = 1

NextFanout ==
  \E t \in Threads :
    \/ TmResolveParent(t)
    \/ TmGetLock(t)
    \/ TmTryLock(t)
    \/ TmValidate(t)
    \/ \E i \in 1..MaxFan : FutureStart(t, i)
    \/ \E i \in 1..MaxFan : FutureEnds(t, i)
    \/ TmReturn(t)

SpecFanout == InitFanout /\ [][NextFanout]_vars

\* the fan-out with its scheduling: an idle pool worker takes the next queued
\* future, and a child that has been called returns or raises
PoolFairness ==
  /\ WF_vars(\E t \in Threads : \E i \in 1..MaxFan : FutureStart(t, i))
  /\ WF_vars(\E t \in Threads : \E i \in 1..MaxFan : FutureEnds(t, i))

\* one transfer_to_subagents call of parent 1 for a list of its children,
\* all of them parallel-capable with an owner thread that has ended
PoolRequests == {r \in Requests : SeqToSet(r) \subseteq {NameOf(2), NameOf(3), NameOf(4)}}

InitPool ==
  /\ agents = Table({1, 2, 3, 4})
  /\ fresh = Ids \ {1, 2, 3, 4}
  /\ subagents = [a \in Ids |-> IF a = 1 THEN <<2, 3, 4>> ELSE <<>>]
  /\ klass = [a \in Ids |-> IF a = 1 THEN "plain" ELSE "async"]
  /\ owner = [a \in Ids |-> IF a = 1 THEN 1 ELSE Gone]
  /\ conduct = [a \in Ids |-> {[out |-> "ok", w |-> {"result"}], [out |-> "raised", w |-> {}]}]
  /\ agentsLock = None
  /\ singleLocks = <<>> /\ multiLocks = <<>>
  /\ files = [a \in Ids |-> {}]
  /\ agentInfoCtx = [t \in Threads |-> None]
  /\ toolCtx = [t \in Threads |-> NoCtx]
  /\ frames = [t \in Threads |-> <<>>]
  /\ NoLockCalls
  /\ ManagerBuilt
  /\ NothingDecorated
  /\ ret = [t \in Threads |-> NoRet]
  /\ \E req \in PoolRequests :
       /\ pc = [t \in Threads |-> IF t = 1 THEN "tm_get" ELSE "idle"]
       /\ loc = [t \in Threads |->
                   IF t = 1 THEN [NoLoc EXCEPT !.op = "tm", !.a = NameOf(1), !.to = req]
                   ELSE NoLoc]
  /\ ops = 1

SpecPool == InitPool /\ [][NextFanout]_vars /\ PoolFairness

\* ------------------------------------------------------- bound tools
\* Every agent's tools are copies made by TinyAgent._create_tool_copy around
\* the one wrapper that @tool() built for the tool function.  A ContextVar
\* holds one value per thread: the slot thread t reads and writes.
SlotShared(t) == 1
Slot(t) == t

\* create_agent_info(): the identity record of agent a
AgentInfo(a) == AgentId(a)

\* wrapper._agent_info = None: the attribute on the shared wrapper
WrapperAgentInfo == wrapperInfo

\* the two operands of the "or" taken in the other order
ResolveFallbackFirst(ctxval) == IF WrapperAgentInfo # None THEN WrapperAgentInfo ELSE ctxval

\* _agent_info_context.get() or getattr(wrapper, "_agent_info", None)
ResolveInfo(ctxval) == IF ctxval # None THEN ctxval ELSE WrapperAgentInfo

\* "finally: var.reset(token)": the slot gets back the value the token holds,
\* whether the body returned (exc = FALSE) or raised
RestoreUnlessRaised(tok, cur, exc) == IF exc THEN cur ELSE tok
Restore(tok, cur, exc) == tok

Top(t) == frames[t][Len(frames[t])]

SetTop(t, f) == frames' = [frames EXCEPT ![t][Len(frames[t])] = f]

\* tool_copy(*args) of agent a is called: by the provider loop of a on an idle
\* thread, or from inside a running tool body on the same thread (a delegation
\* tool that runs another agent, whose provider loop calls that agent's tools).
\* a0, t0 remember what the two slots held when the call began.
ToolCopyCall(t, a) ==
  /\ pc[t] = "idle"
  /\ ops < MaxOps
  /\ ops' = ops + 1
  /\ \/ frames[t] = <<>> /\ \A u \in Threads : u < t => frames[u] # <<>>
     \/ frames[t] # <<>> /\ Top(t).pcf = "body" /\ Top(t).agent # a
  /\ frames' = [frames EXCEPT ![t] =
       Append(@, [agent |-> a, pcf |-> "set", tokA |-> None, tokT |-> NoCtx,
                  info |-> None, exc |-> FALSE, sub |-> "none",
                  a0 |-> agentInfoCtx[Slot(t)], t0 |-> toolCtx[Slot(t)]])]
  /\ UNCHANGED <<registryState, delegationState, lockState, singletonState, decoratorState, agentInfoCtx, toolCtx, pc, loc, ret>>

\* token = _agent_info_context.set(agent_info)
CopySet(t) ==
  /\ frames[t] # <<>> /\ Top(t).pcf = "set"
  /\ agentInfoCtx' = [agentInfoCtx EXCEPT ![Slot(t)] = AgentInfo(Top(t).agent)]
  /\ SetTop(t, [Top(t) EXCEPT !.pcf = "read", !.tokA = agentInfoCtx[Slot(t)]])
  /\ UNCHANGED <<registryState, delegationState, lockState, singletonState, decoratorState, toolCtx, pc, loc, ret, ops>>

\* wrapper: agent_info = _agent_info_context.get() or wrapper._agent_info
WrapperRead(t) ==
  /\ frames[t] # <<>> /\ Top(t).pcf = "read"
  /\ SetTop(t, [Top(t) EXCEPT !.pcf = "tset",
                              !.info = ResolveInfo(agentInfoCtx[Slot(t)])])
  /\ UNCHANGED <<registryState, delegationState, lockState, singletonState, decoratorState, agentInfoCtx, toolCtx, pc, loc, ret, ops>>

\* wrapper: token = _tool_context.set(context)
WrapperSet(t) ==
  /\ frames[t] # <<>> /\ Top(t).pcf = "tset"
  /\ toolCtx' = [toolCtx EXCEPT ![Slot(t)] = [agent_info |-> Top(t).info, func |-> "tool"]]
  /\ SetTop(t, [Top(t) EXCEPT !.pcf = "body", !.tokT = toolCtx[Slot(t)]])
  /\ UNCHANGED <<registryState, delegationState, lockState, singletonState, decoratorState, agentInfoCtx, pc, loc, ret, ops>>

\* result = func(*args, **kwargs): the tool body returns or raises
BodyEnds(t, out) ==
  /\ frames[t] # <<>> /\ Top(t).pcf = "body"
  /\ SetTop(t, IF out = "ok" THEN [Top(t) EXCEPT !.pcf = "extra"]
                             ELSE [Top(t) EXCEPT !.pcf = "treset", !.exc = TRUE])
  /\ UNCHANGED <<registryState, delegationState, lockState, singletonState, decoratorState, agentInfoCtx, toolCtx, pc, loc, ret, ops>>

\* extra = extra_fn(func.__name__, caller_info, agent_info): returns or raises
ExtraEnds(t, out) ==
  /\ frames[t] # <<>> /\ Top(t).pcf = "extra"
  /\ SetTop(t, [Top(t) EXCEPT !.pcf = "treset", !.exc = (out # "ok")])
  /\ UNCHANGED <<registryState, delegationState, lockState, singletonState, decoratorState, agentInfoCtx, toolCtx, pc, loc, ret, ops>>

\* wrapper: "finally: _tool_context.reset(token)", then, unless an exception
\* is passing, extra_fn_prompt.format(...), which returns or raises
WrapperReset(t, out) ==
  /\ frames[t] # <<>> /\ Top(t).pcf = "treset"
  /\ Top(t).exc => out = "raised"
  /\ toolCtx' = [toolCtx EXCEPT ![Slot(t)] = Restore(Top(t).tokT, @, Top(t).exc)]
  /\ SetTop(t, [Top(t) EXCEPT !.pcf = "areset", !.exc = (out # "ok")])
  /\ UNCHANGED <<registryState, delegationState, lockState, singletonState, decoratorState, agentInfoCtx, pc, loc, ret, ops>>

\* tool_copy: "finally: _agent_info_context.reset(token)"; the call ends, in
\* the body of the enclosing tool call if there is one
CopyReset(t) ==
  /\ frames[t] # <<>> /\ Top(t).pcf = "areset" /\ Top(t).agent # None
  /\ agentInfoCtx' = [agentInfoCtx EXCEPT ![Slot(t)] = Restore(Top(t).tokA, @, Top(t).exc)]
  /\ LET st == IF Top(t).exc THEN "raised" ELSE "ok"
         rest == Pop(frames[t])
     IN IF rest = <<>>
          THEN /\ frames' = [frames EXCEPT ![t] = <<>>]
               /\ ret' = [ret EXCEPT ![t] = [NoRet EXCEPT !.op = "tool", !.st = st,
                                                          !.val = Top(t).agent]]
          ELSE /\ frames' = [frames EXCEPT ![t] =
                              [rest EXCEPT ![Len(rest)].sub = st]]
               /\ UNCHANGED ret
  /\ UNCHANGED <<registryState, delegationState, lockState, singletonState, decoratorState, toolCtx, pc, loc, ops>>

\* Two agents that were given the same tool function
ToolAgents == {2, 3}

InitTools ==
  /\ klass = [a \in Ids |-> IF a = 1 THEN "plain" ELSE "sub"]
  /\ subagents = [a \in Ids |-> IF a = 2 THEN <<3>> ELSE IF a = 3 THEN <<2>> ELSE <<>>]
  /\ agents = Table({1, 2, 3})
  /\ fresh = Ids \ {1, 2, 3}
  /\ agentsLock = None
  /\ owner = [a \in Ids |-> 1]
  /\ conduct = [a \in Ids |-> Conducts]
  /\ singleLocks = <<>> /\ multiLocks = <<>>
  /\ files = [a \in Ids |-> {}]
  /\ agentInfoCtx = [t \in Threads |-> None]
  /\ toolCtx = [t \in Threads |-> NoCtx]
  /\ frames = [t \in Threads |-> <<>>]
  /\ NoLockCalls
  /\ ManagerBuilt
  /\ NothingDecorated
  /\ pc = [t \in Threads |-> "idle"]
  /\ loc = [t \in Threads |-> NoLoc]
  /\ ret = [t \in Threads |-> NoRet]
  /\ ops = 0

NextTools ==
  \E t \in Threads :
    \/ \E a \in ToolAgents : ToolCopyCall(t, a)
    \/ CopySet(t)
    \/ WrapperRead(t)
    \/ WrapperSet(t)
    \/ \E out \in {"ok", "raised"} : BodyEnds(t, out)
    \/ \E out \in {"ok", "raised"} : ExtraEnds(t, out)
    \/ \E out \in {"ok", "raised"} : WrapperReset(t, out)
    \/ CopyReset(t)

SpecTools == InitTools /\ [][NextTools]_vars

\* ------------------------------------------------------- wrapper fallback
\* The wrapper that @tool() built is called as it is, not through a bound
\* copy: by client code on an idle thread, or by a tool body that calls another
\* tool function.  No _agent_info_context.set() precedes the wrapper's read.
DirectCall(t) ==
  /\ pc[t] = "idle"
  /\ ops < MaxOps
  /\ ops' = ops + 1
  /\ \/ frames[t] = <<>>
     \/ frames[t] # <<>> /\ Top(t).pcf = "body"
  /\ frames' = [frames EXCEPT ![t] =
       Append(@, [agent |-> None, pcf |-> "read", tokA |-> None, tokT |-> NoCtx,
                  info |-> None, exc |-> FALSE, sub |-> "none",
                  a0 |-> agentInfoCtx[Slot(t)], t0 |-> toolCtx[Slot(t)]])]
  /\ UNCHANGED <<registryState, delegationState, lockState, singletonState, decoratorState, agentInfoCtx, toolCtx, pc, loc, ret>>

\* the wrapper returns its dict or the exception leaves it; the call ends, in
\* the body of the enclosing tool call if there is one
DirectEnds(t) ==
  /\ frames[t] # <<>> /\ Top(t).pcf = "areset" /\ Top(t).agent = None
  /\ LET st == IF Top(t).exc THEN "raised" ELSE "ok"
         rest == Pop(frames[t])
     IN IF rest = <<>>
          THEN /\ frames' = [frames EXCEPT ![t] = <<>>]
               /\ ret' = [ret EXCEPT ![t] = [NoRet EXCEPT !.op = "direct", !.st = st,
                                                          !.val = Top(t).info]]
          ELSE /\ frames' = [frames EXCEPT ![t] =
                              [rest EXCEPT ![Len(rest)].sub = st]]
               /\ UNCHANGED ret
  /\ UNCHANGED <<registryState, delegationState, lockState, singletonState, decoratorState, agentInfoCtx, toolCtx, pc, loc, ops>>

\* the identity of an agent that was not given the tool
LegacyAgent == 1

\* wrapper._agent_info is None as @tool() left it, or holds an identity that
\* client code stored on the shared wrapper
InitFallback ==
  /\ klass = [a \in Ids |-> IF a = 1 THEN "plain" ELSE "sub"]
  /\ subagents = [a \in Ids |-> <<>>]
  /\ agents = Table({1, 2, 3})
  /\ fresh = Ids \ {1, 2, 3}
  /\ agentsLock = None
  /\ owner = [a \in Ids |-> 1]
  /\ conduct = [a \in Ids |-> Conducts]
  /\ singleLocks = <<>> /\ multiLocks = <<>>
  /\ files = [a \in Ids |-> {}]
  /\ agentInfoCtx = [t \in Threads |-> None]
  /\ toolCtx = [t \in Threads |-> NoCtx]
  /\ frames = [t \in Threads |-> <<>>]
  /\ NoLockCalls
  /\ ManagerBuilt
  /\ wrapperInfo \in {None, AgentInfo(LegacyAgent)}
  /\ objs = <<>>
  /\ pc = [t \in Threads |-> "idle"]
  /\ loc = [t \in Threads |-> NoLoc]
  /\ ret = [t \in Threads |-> NoRet]
  /\ ops = 0

NextFallback ==
  \E t \in Threads :
    \/ \E a \in ToolAgents : ToolCopyCall(t, a)
    \/ DirectCall(t)
    \/ CopySet(t)
    \/ WrapperRead(t)
    \/ WrapperSet(t)
    \/ \E out \in {"ok", "raised"} : BodyEnds(t, out)
    \/ \E out \in {"ok", "raised"} : ExtraEnds(t, out)
    \/ \E out \in {"ok", "raised"} : WrapperReset(t, out)
    \/ CopyReset(t)
    \/ DirectEnds(t)

SpecFallback == InitFallback /\ [][NextFallback]_vars

\* ------------------------------------------------------- AgentManager()
\* AgentManager.__new__, statement by statement, as the first statement of
\* "AgentManager().register(self)" at the end of TinyAgent.__init__.
\* managers[i] tells which of _agents and _agents_lock object i has; the
\* table and the lock of the object are the variables agents and agentsLock.
NewCall(t, a) ==
  /\ Start(t)
  /\ a \in fresh
  /\ fresh' = fresh \ {a}
  /\ pc' = [pc EXCEPT ![t] = "new_outer"]
  /\ loc' = [loc EXCEPT ![t] = [NoLoc EXCEPT !.op = "register", !.a = a]]
  /\ UNCHANGED <<owner, conduct, delegationState, toolState, singletonState, decoratorState, lockState>>
  /\ UNCHANGED <<agents, agentsLock, subagents, klass, ret>>

\* if cls._instance is None:
NewOuter(t) ==
  /\ pc[t] = "new_outer"
  /\ pc' = [pc EXCEPT ![t] = IF instance = None THEN "new_lock" ELSE "new_ret"]
  /\ UNCHANGED <<registryState, delegationState, toolState, singletonState, decoratorState, lockState, loc, ret, ops>>

\* with cls._lock:
NewLock(t) ==
  /\ pc[t] = "new_lock"
  /\ managerLock = None
  /\ managerLock' = t
  /\ pc' = [pc EXCEPT ![t] = "new_inner"]
  /\ UNCHANGED <<registryState, delegationState, toolState, decoratorState, lockState, instance, managers, loc, ret, ops>>

\* if cls._instance is None: (under the lock; otherwise the block is left)
NewInner(t) ==
  /\ pc[t] = "new_inner"
  /\ IF instance = None
       THEN pc' = [pc EXCEPT ![t] = "new_alloc"] /\ UNCHANGED managerLock
       ELSE pc' = [pc EXCEPT ![t] = "new_ret"] /\ managerLock' = None
  /\ UNCHANGED <<registryState, delegationState, toolState, decoratorState, lockState, instance, managers, loc, ret, ops>>

\* cls._instance = super().__new__(cls)
NewAlloc(t) ==
  /\ pc[t] = "new_alloc"
  /\ managers' = Append(managers, [agents |-> FALSE, lock |-> FALSE])
  /\ instance' = Len(managers) + 1
  /\ pc' = [pc EXCEPT ![t] = "new_agents"]
  /\ UNCHANGED <<registryState, delegationState, toolState, decoratorState, lockState, managerLock, loc, ret, ops>>

\* cls._instance._agents = {}
NewAgents(t) ==
  /\ pc[t] = "new_agents"
  /\ managers' = [managers EXCEPT ![instance].agents = TRUE]
  /\ agents' = Table({})
  /\ pc' = [pc EXCEPT ![t] = "new_alock"]
  /\ UNCHANGED <<agentsLock, subagents, klass, fresh, owner, conduct>>
  /\ UNCHANGED <<delegationState, toolState, decoratorState, lockState, instance, managerLock, loc, ret, ops>>

\* cls._instance._agents_lock = threading.Lock(); the "with" block is left
NewAgentsLock(t) ==
  /\ pc[t] = "new_alock"
  /\ managers' = [managers EXCEPT ![instance].lock = TRUE]
  /\ agentsLock' = None
  /\ managerLock' = None
  /\ pc' = [pc EXCEPT ![t] = "new_ret"]
  /\ UNCHANGED <<agents, subagents, klass, fresh, owner, conduct>>
  /\ UNCHANGED <<delegationState, toolState, decoratorState, lockState, instance, loc, ret, ops>>

\* return cls._instance
NewReturn(t) ==
  /\ pc[t] = "new_ret"
  /\ loc' = [loc EXCEPT ![t].inst = instance]
  /\ pc' = [pc EXCEPT ![t] = "reg_attr"]
  /\ UNCHANGED <<registryState, delegationState, toolState, singletonState, decoratorState, lockState, ret, ops>>

\* register: "with self._agents_lock:" looks the attribute up on the object
\* that AgentManager() returned
RegisterAttr(t) ==
  /\ pc[t] = "reg_attr"
  /\ IF managers[loc[t].inst].lock
       THEN pc' = [pc EXCEPT ![t] = "reg_wait"] /\ UNCHANGED <<loc, ret>>
       ELSE Finish(t, "register", "AttributeError", loc[t].a)
  /\ UNCHANGED <<registryState, delegationState, toolState, singletonState, decoratorState, lockState, ops>>

\* the agents whose constructors run first in the process
FirstAgents == {1, 2, NumNames + 1}

\* no AgentManager() call has been made: _instance is None
InitSingleton ==
  /\ klass = [a \in Ids |-> "plain"]
  /\ subagents = [a \in Ids |-> <<>>]
  /\ agents = Table({})
  /\ fresh = Ids
  /\ agentsLock = None
  /\ owner = [a \in Ids |-> 1]
  /\ conduct = [a \in Ids |-> Conducts]
  /\ singleLocks = <<>> /\ multiLocks = <<>>
  /\ files = [a \in Ids |-> {}]
  /\ agentInfoCtx = [t \in Threads |-> None]
  /\ toolCtx = [t \in Threads |-> NoCtx]
  /\ frames = [t \in Threads |-> <<>>]
  /\ NoLockCalls
  /\ instance = None
  /\ managerLock = None
  /\ managers = <<>>
  /\ NothingDecorated
  /\ pc = [t \in Threads |-> "idle"]
  /\ loc = [t \in Threads |-> NoLoc]
  /\ ret = [t \in Threads |-> NoRet]
  /\ ops = 0

NextSingleton ==
  \E t \in Threads :
    \/ \E a \in FirstAgents : NewCall(t, a)
    \/ NewOuter(t)
    \/ NewLock(t)
    \/ NewInner(t)
    \/ NewAlloc(t)
    \/ NewAgents(t)
    \/ NewAgentsLock(t)
    \/ NewReturn(t)
    \/ RegisterAttr(t)
    \/ RegisterAcquire(t)
    \/ RegisterScan(t)
    \/ RegisterInsert(t)

SpecSingleton == InitSingleton /\ [][NextSingleton]_vars

\* ------------------------------------------------------- decorators
\* objs holds, in order of creation, a plain function and every callable a
\* decorator made; an object is named by its position.  wrapped is the
\* object's __wrapped__ (0: no such attribute), marked tells whether it has
\* the attribute _agent_info, info is the value of that attribute.
MaxObjs == 5

PlainFunction ==
  [kind |-> "plain", wrapped |-> 0, tool_func |-> 0, original |-> 0,
   marked |-> FALSE, info |-> None]

\* tool(...)(func): @wraps(func) sets __wrapped__ = func, and the decorator
\* ends with wrapper._agent_info = None
ToolWrapper(f) ==
  [kind |-> "tool", wrapped |-> f, tool_func |-> 0, original |-> 0,
   marked |-> TRUE, info |-> None]

\* inspect.unwrap(func): follow __wrapped__ to the object that has none
RECURSIVE Unwrap(_, _)
Unwrap(heap, f) ==
  IF heap[f].wrapped = 0 THEN f ELSE Unwrap(heap, heap[f].wrapped)

\* hasattr(func, "_agent_info")
HasAgentInfoNever(o) == FALSE
HasAgentInfo(o) == o.marked

\* _CodingToolCallable(tool_func, original_func).__init__
CodingToolCallable(heap, tf, orig) ==
  [kind |-> "coding", tool_func |-> tf, original |-> orig,
   wrapped |-> IF heap[tf].wrapped # 0 THEN heap[tf].wrapped ELSE orig,
   marked |-> TRUE,
   info |-> IF heap[tf].marked THEN heap[tf].info ELSE None]

\* coding_tool(...)(func): the heap after the call and the object returned
CodingTool(heap, f) ==
  IF heap[f].kind = "coding" THEN [heap |-> heap, res |-> f]
  ELSE LET original == Unwrap(heap, f)
       IN IF HasAgentInfo(heap[f])
            THEN [heap |-> Append(heap, CodingToolCallable(heap, f, original)),
                  res |-> Len(heap) + 1]
            ELSE LET withTool == Append(heap, ToolWrapper(f))
                 IN [heap |-> Append(withTool,
                                     CodingToolCallable(withTool, Len(withTool), original)),
                     res |-> Len(heap) + 2]

\* a module applies @tool() to object f
ApplyTool(t, f) ==
  /\ f \in 1..Len(objs)
  /\ Len(objs) < MaxObjs
  /\ objs' = Append(objs, ToolWrapper(f))
  /\ ret' = [ret EXCEPT ![t] = [NoRet EXCEPT !.op = "tool_decorator", !.st = "ok",
                                             !.from = f, !.val = Len(objs) + 1]]
  /\ UNCHANGED <<registryState, delegationState, toolState, singletonState, lockState, wrapperInfo, pc, loc, ops>>

\* a module applies @coding_tool() to object f
ApplyCodingTool(t, f) ==
  /\ f \in 1..Len(objs)
  /\ Len(CodingTool(objs, f).heap) <= MaxObjs
  /\ objs' = CodingTool(objs, f).heap
  /\ ret' = [ret EXCEPT ![t] = [NoRet EXCEPT !.op = "coding_tool", !.st = "ok",
                                             !.from = f, !.val = CodingTool(objs, f).res]]
  /\ UNCHANGED <<registryState, delegationState, toolState, singletonState, lockState, wrapperInfo, pc, loc, ops>>

\* a plain function and the wrapper @tool() made of it, whose _agent_info is
\* None or an identity that client code stored on it
InitDecorators ==
  /\ klass = [a \in Ids |-> "plain"]
  /\ subagents = [a \in Ids |-> <<>>]
  /\ agents = Table({1})
  /\ fresh = Ids \ {1}
  /\ agentsLock = None
  /\ owner = [a \in Ids |-> 1]
  /\ conduct = [a \in Ids |-> Conducts]
  /\ singleLocks = <<>> /\ multiLocks = <<>>
  /\ files = [a \in Ids |-> {}]
  /\ agentInfoCtx = [t \in Threads |-> None]
  /\ toolCtx = [t \in Threads |-> NoCtx]
  /\ frames = [t \in Threads |-> <<>>]
  /\ NoLockCalls
  /\ ManagerBuilt
  /\ wrapperInfo \in {None, AgentInfo(LegacyAgent)}
  /\ objs = <<PlainFunction, [ToolWrapper(1) EXCEPT !.info = wrapperInfo]>>
  /\ pc = [t \in Threads |-> "idle"]
  /\ loc = [t \in Threads |-> NoLoc]
  /\ ret = [t \in Threads |-> NoRet]
  /\ ops = 0

NextDecorators ==
  \E t \in Threads : \E f \in 1..MaxObjs :
    \/ ApplyTool(t, f)
    \/ ApplyCodingTool(t, f)

SpecDecorators == InitDecorators /\ [][NextDecorators]_vars

\* ------------------------------------------------------- lifecycle
\* the lists of children given to a constructor
MaxChildren == 2
ChildLists == UNION {[1..n -> {1, 4, 5}] : n \in 0..MaxChildren}

InitLifecycle ==
  /\ klass = [a \in Ids |-> IF a = 4 THEN "plain" ELSE IF a % 2 = 0 THEN "async" ELSE "sub"]
  /\ subagents = [a \in Ids |-> IF a = 1 THEN <<2, 3>> ELSE IF a = 2 THEN <<1>> ELSE <<>>]
  /\ agents = Table({1, 2, 3})
  /\ fresh = Ids \ {1, 2, 3}
  /\ agentsLock = None
  /\ owner = [a \in Ids |-> 1]
  /\ conduct = [a \in Ids |-> {[out |-> "ok", w |-> {"result"}]}]
  /\ singleLocks = <<>> /\ multiLocks = <<>>
  /\ files = [a \in Ids |-> {}]
  /\ agentInfoCtx = [t \in Threads |-> None]
  /\ toolCtx = [t \in Threads |-> NoCtx]
  /\ frames = [t \in Threads |-> <<>>]
  /\ NoLockCalls
  /\ ManagerBuilt
  /\ NothingDecorated
  /\ pc = [t \in Threads |-> "idle"]
  /\ loc = [t \in Threads |-> NoLoc]
  /\ ret = [t \in Threads |-> NoRet]
  /\ ops = 0

\* constructions, attachments, registry calls, a delegation and a tool call
NextLifecycle ==
  \E t \in Threads :
    \/ \E a \in Ids, ups \in ChildLists : ConstructCall(t, a, ups)
    \/ RegisterAcquire(t)
    \/ RegisterScan(t)
    \/ RegisterInsert(t)
    \/ GetCall(t, NameOf(3))
    \/ GetAgentByName(t)
    \/ \E a \in {1, 3} : UnregisterCall(t, a)
    \/ UnregisterAcquire(t)
    \/ UnregisterStep(t)
    \/ \E c \in {1, 3, 5} : AppendSubagents(t, 2, c)
    \/ TsCall(t, NameOf(1), NameOf(2))
    \/ TsResolveParent(t)
    \/ TsGetLock(t)
    \/ TsTryLock(t)
    \/ TsValidate(t)
    \/ TsChildEnds(t)
    \/ ToolCopyCall(t, 2)
    \/ CopySet(t)
    \/ WrapperRead(t)
    \/ WrapperSet(t)
    \/ BodyEnds(t, "ok")
    \/ ExtraEnds(t, "ok")
    \/ WrapperReset(t, "ok")
    \/ CopyReset(t)

SpecLifecycle == InitLifecycle /\ [][NextLifecycle]_vars

\* ------------------------------------------------------- registry claims
RegisterEnds(t) == pc[t] \in {"reg_scan", "reg_insert"} /\ pc'[t] = "idle"
UnregisterEnds(t) == pc[t] = "unreg" /\ pc'[t] = "idle"

\* C3: in every reachable registry state no two records in the registry have
\* the same name, whatever the interleaving of register, unregister and
\* get_agent_by_name; and two register calls for the same name never both fail.
C3_NameUnique ==
  /\ \A j, k \in DOMAIN agents : j # k => NameOf(agents[j]) # NameOf(agents[k])
  /\ \A t, u \in Threads :
       (/\ t # u
        /\ ret[t].op = "register" /\ ret[u].op = "register"
        /\ ret[t].val # ret[u].val
        /\ NameOf(ret[t].val) = NameOf(ret[u].val))
       => ~(ret[t].st = "NameCollision" /\ ret[u].st = "NameCollision")

\* two register calls for one name have ended: one inserted, one was rejected
C3_Witness ==
  \E t, u \in Threads :
    /\ t # u
    /\ ret[t].op = "register" /\ ret[t].st = "ok"
    /\ ret[u].op = "register" /\ ret[u].st = "NameCollision"
    /\ NameOf(ret[t].val) = NameOf(ret[u].val)
    /\ ret[t].val \in Registered /\ ret[u].val \notin Registered

\* C4: register(a) ends in NameCollision exactly when a record of the same name
\* is in the registry; then the table is what it was when the call took the
\* lock, every earlier record is still under its id and a is absent.  Otherwise
\* the call adds a under a's agent_id and changes no other entry and no
\* children map.
C4_RegisterOutcome ==
  [][\A t \in Threads : RegisterEnds(t) =>
       LET a == loc[t].a
           before == loc[t].before
           taken == \E k \in before : NameOf(k) = NameOf(a)
       IN /\ ret'[t].st \in {"ok", "NameCollision"}
          /\ (ret'[t].st = "NameCollision") <=> taken
          /\ \A k \in before : k \in DOMAIN agents' /\ AgentId(agents'[k]) = k
          /\ subagents' = subagents
          /\ IF taken
               THEN DOMAIN agents' = before /\ AgentId(a) \notin DOMAIN agents'
               ELSE /\ DOMAIN agents' = before \cup {AgentId(a)}
                    /\ agents'[AgentId(a)] = a]_vars

\* a register call was rejected and the holder of the name is still registered
C4_Witness ==
  \E t \in Threads :
    /\ ret[t].op = "register" /\ ret[t].st = "NameCollision"
    /\ ret[t].val \notin Registered
    /\ \E k \in Registered : NameOf(agents[k]) = NameOf(ret[t].val)

\* C5 as stated: unregister(root) removes exactly root and every record
\* reachable from root through children maps, and no other record.
C5_RemovesAllDescendants ==
  [][\A t \in Threads : UnregisterEnds(t) =>
       DOMAIN agents' = loc[t].before \ Descendants(loc[t].a)]_vars

\* C5 amended: unregister(root) removes only records reachable from root
\* through children maps.  With the children maps untouched during the call, an
\* unregister that returns has removed exactly the records its walk reaches
\* (root if registered, and descendants through the children maps of
\* registered records); the table shrinks by their number and every removed
\* name is then absent; the only other outcome is RecursionError on a cyclic
\* children graph, which has removed some of these records.  With a children
\* map changed during the call the call may also end in RuntimeError, having
\* removed some of the reachable records.
C5_RemovesRegisteredSubtree ==
  [][\A t \in Threads : UnregisterEnds(t) =>
       LET before == loc[t].before
           reach == loc[t].reach
       IN /\ DOMAIN agents' \subseteq before
          /\ before \ DOMAIN agents' \subseteq Descendants(loc[t].a)
          /\ IF subagents = loc[t].subs
               THEN IF ret'[t].st = "ok"
                      THEN /\ DOMAIN agents' = before \ reach
                           /\ Cardinality(DOMAIN agents')
                                = Cardinality(before) - Cardinality(reach)
                           /\ \A a \in reach : FirstIn(agents', NameOf(a)) = None
                      ELSE /\ ret'[t].st = "RecursionError"
                           /\ before \ DOMAIN agents' \subseteq reach
               ELSE ret'[t].st \in {"ok", "RecursionError", "RuntimeError"}]_vars

\* an unregister of a root with a registered grandchild has returned and the
\* whole subtree is gone
C5_Witness ==
  \E t \in Threads :
    /\ ret[t].op = "unregister" /\ ret[t].st = "ok"
    /\ \E c \in SeqToSet(subagents[ret[t].val]) : subagents[c] # <<>>
    /\ Descendants(ret[t].val) \cap Registered = {}
    /\ Cardinality(Registered) = 0

\* ------------------------------------------------------- delegation claims
\* thread t is between its successful lock.acquire and its lock.release
InFlight(t, op) ==
  /\ loc[t].op = op
  /\ pc[t] \in (IF op = "ts" THEN {"ts_body", "ts_run"} ELSE {"tm_body", "tm_pool"})

\* C1: for every parent and each of the two patterns, at most one call is
\* between its successful lock acquisition and its lock release.
C1_SingleFlight ==
  \A t, u \in Threads : \A op \in {"ts", "tm"} :
    (t # u /\ InFlight(t, op) /\ InFlight(u, op)) => loc[t].parent # loc[u].parent

\* a fan-out of a parent has a child running while a second
\* transfer_to_subagents call for the same parent is at its try-lock
C1_Witness ==
  \E t, u \in Threads :
    /\ t # u
    /\ InFlight(t, "tm") /\ Running(loc[t]) # {}
    /\ pc[u] = "tm_try" /\ loc[u].parent = loc[t].parent

\* C2: a transfer_to_subagent call at its try-lock is never blocked; while
\* another call of the same parent is executing its child the try-lock step
\* returns Busy, having called no child and changed no lock or file; when no
\* call of that parent is in flight the step takes the lock and the call goes
\* on.
C2_BusyThenFree ==
  /\ [](\A u \in Threads : pc[u] = "ts_try" => ENABLED TsTryLock(u))
  /\ [][\A u \in Threads : (pc[u] = "ts_try" /\ pc'[u] # "ts_try") =>
         LET others == {t \in Threads \ {u} : loc[t].parent = loc[u].parent}
         IN /\ (\E t \in others : pc[t] = "ts_run") =>
                 /\ pc'[u] = "idle"
                 /\ ret'[u].st = "Busy" /\ ret'[u].val = BusySingle
                 /\ ret'[u].ran = <<>>
                 /\ UNCHANGED <<singleLocks, multiLocks, files>>
            /\ (\A t \in others : ~InFlight(t, "ts")) =>
                 /\ pc'[u] = "ts_body"
                 /\ singleLocks'[AgentId(loc[u].parent)]]_vars

\* a second call got Busy while the first is still executing its child
C2_Witness ==
  \E t, u \in Threads :
    /\ t # u
    /\ pc[t] = "ts_run"
    /\ ret[u].op = "ts" /\ ret[u].st = "Busy" /\ ret[u].from = loc[t].a

ThreeTier == {"result", "memory", "ignore"}

\* C6 as stated: with c2 raising and c1, c3 completing, the map returned for
\* [c1, c2, c3] has exactly three entries, c1 and c3 show a three-tier
\* resolution and c2 shows the captured error string.
C6_ErrorEntryShown ==
  \A t \in Threads :
    (/\ ret[t].op = "tm" /\ Len(ret[t].req) = 3
     /\ Cardinality(SeqToSet(ret[t].req)) = 3
     /\ Len(ret[t].ran) = 3
     /\ ret[t].errs = {ret[t].req[2]})
    => /\ ret[t].st = "ok"
       /\ DOMAIN ret[t].val = SeqToSet(ret[t].req)
       /\ ret[t].val[ret[t].req[1]].kind \in ThreeTier
       /\ ret[t].val[ret[t].req[3]].kind \in ThreeTier
       /\ ret[t].val[ret[t].req[2]].kind = "error"

\* C7: once transfer_to_subagents has dispatched, the exception of a child
\* never reaches the caller and stops no sibling: for every set of children
\* that raise, every requested child was called, in list order, and the call
\* returns a map.
C7_ChildErrorIsolated ==
  \A t \in Threads :
    (ret[t].op = "tm" /\ ret[t].errs # {})
    => /\ ret[t].st = "ok"
       /\ Len(ret[t].ran) = Len(ret[t].req)
       /\ \A i \in 1..Len(ret[t].req) : NameOf(ret[t].ran[i]) = ret[t].req[i]
       /\ \A nm \in SeqToSet(ret[t].req) : nm \in DOMAIN ret[t].val

\* a call returned its map although one child raised and a sibling returned
C7_Witness ==
  \E t \in Threads :
    /\ ret[t].op = "tm" /\ ret[t].st = "ok"
    /\ ret[t].errs # {}
    /\ SeqToSet(ret[t].req) \ ret[t].errs # {}

\* the record flags of the data model
IsSubagentFlag(a) == klass[a] \in {"sub", "async"}
SupportsParallelFanout(a) == klass[a] = "async"

InvalidRequest(p, req) ==
  \E i \in 1..Len(req) :
    LET c == GetSubagentByName(p, req[i])
    IN c = None \/ ~(IsSubagentFlag(c) /\ SupportsParallelFanout(c))

\* C8: a transfer_to_subagents call that holds the lock and whose list has a
\* name that is no child of the parent, or a child not flagged both
\* is_subagent and supports_parallel_fanout, fails at validation wherever the
\* name stands in the list: no child has been called, no future exists, and
\* the multi-target lock is released.
C8_FailFast ==
  [][\A t \in Threads :
       (/\ pc[t] = "tm_body" /\ pc'[t] # "tm_body"
        /\ InvalidRequest(loc[t].parent, loc[t].to)) =>
       /\ pc'[t] = "idle"
       /\ ret'[t].st \in {"NotFound", "CapabilityError"}
       /\ ret'[t].ran = <<>>
       /\ files' = files
       /\ ~multiLocks'[AgentId(loc[t].parent)]]_vars

\* a call failed validation on the last name of a list of three
C8_Witness ==
  \E t \in Threads :
    /\ ret[t].op = "tm" /\ ret[t].st \in {"NotFound", "CapabilityError"}
    /\ Len(ret[t].req) = 3
    /\ ~InvalidRequest(FirstByName(ret[t].from), SubSeq(ret[t].req, 1, 2))
    /\ ret[t].ran = <<>>
    /\ ~multiLocks[AgentId(FirstByName(ret[t].from))]

\* C9: for a child flagged is_subagent and not supports_parallel_fanout,
\* transfer_to_subagent passes validation and calls the child, and
\* transfer_to_subagents for the list of that child alone fails its
\* capability check and calls nothing.
C9_CapabilityAsymmetry ==
  [][\A t \in Threads :
       LET c == GetSubagentByName(loc[t].parent, loc[t].to[1])
           sequentialOnly == /\ Len(loc[t].to) = 1
                             /\ c # None
                             /\ IsSubagentFlag(c) /\ ~SupportsParallelFanout(c)
       IN /\ (pc[t] = "ts_body" /\ pc'[t] # "ts_body" /\ sequentialOnly) =>
               \/ pc'[t] = "ts_run" /\ loc'[t].ran = <<c>>
               \/ pc'[t] = "idle" /\ ret'[t].st = "ThreadAffinityViolation"
                    /\ ret'[t].ran = <<c>>
          /\ (pc[t] = "tm_body" /\ pc'[t] # "tm_body" /\ sequentialOnly) =>
               /\ pc'[t] = "idle"
               /\ ret'[t].st = "CapabilityError"
               /\ ret'[t].ran = <<>>]_vars

\* the same child served a transfer_to_subagent call and was refused by
\* transfer_to_subagents
C9_Witness ==
  \E t, u \in Threads :
    /\ ret[t].op = "ts" /\ ret[t].st = "ok" /\ Len(ret[t].ran) = 1
    /\ ret[u].op = "tm" /\ ret[u].st = "CapabilityError" /\ ret[u].ran = <<>>
    /\ ret[u].req = ret[t].req /\ ret[u].from = ret[t].from
    /\ klass[ret[t].ran[1]] = "sub"

ObservedIdentity(t) == toolCtx[Slot(t)].agent_info

\* C11: while the tool body or the enrichment step of a bound tool call of
\* agent B runs on a thread, the identity that call observes, in the context
\* and in the agent_info the wrapper resolved, is B's, whatever bound tool
\* calls of other agents on the same tool function do on other threads.
C11_IdentityIsolated ==
  \A t \in Threads :
    (frames[t] # <<>> /\ Top(t).pcf \in {"body", "extra"})
    => /\ ObservedIdentity(t) = AgentInfo(Top(t).agent)
       /\ Top(t).info = AgentInfo(Top(t).agent)

\* two threads are inside the tool body for two different agents
C11_Witness ==
  \E t, u \in Threads :
    /\ t # u /\ frames[t] # <<>> /\ frames[u] # <<>>
    /\ Top(t).pcf = "body" /\ Top(u).pcf = "body"
    /\ Top(t).agent # Top(u).agent

\* C12: the step that ends a bound tool call, by return or by an exception of
\* the tool body, the enrichment step or the formatting, leaves the thread's
\* identity slot and its tool-context slot holding what they held when the
\* call began; after a nested call the enclosing call's identity is back.
C12_PushPopBalanced ==
  [][\A t \in Threads :
       (/\ frames[t] # <<>> /\ Top(t).pcf = "areset"
        /\ Len(frames'[t]) < Len(frames[t])) =>
       /\ agentInfoCtx'[Slot(t)] = Top(t).a0
       /\ toolCtx'[Slot(t)] = Top(t).t0
       /\ frames'[t] # <<>> =>
            LET outer == frames'[t][Len(frames'[t])]
            IN /\ agentInfoCtx'[Slot(t)] = AgentInfo(outer.agent)
               /\ toolCtx'[Slot(t)].agent_info = AgentInfo(outer.agent)]_vars

\* a nested call has ended by an exception and its enclosing call, still in
\* its tool body, observes its own identity
C12_Witness ==
  \E t \in Threads :
    /\ Len(frames[t]) = 1
    /\ Top(t).pcf = "body" /\ Top(t).sub = "raised"
    /\ ObservedIdentity(t) = AgentInfo(Top(t).agent)
    /\ agentInfoCtx[Slot(t)] = AgentInfo(Top(t).agent)

\* ------------------------------------------------------- thread affinity claims
\* C13 as stated: the owner check of an agent passes on the thread that
\* constructed it and rejects the call on every other thread, a pool worker
\* included, before the run of the agent starts.
C13_OtherThreadRejected ==
  [][\A t \in Threads :
       /\ (pc[t] = "ts_body" /\ pc'[t] # "ts_body"
             /\ GetSubagentByName(loc[t].parent, loc[t].to[1]) # None
             /\ SingleTarget(GetSubagentByName(loc[t].parent, loc[t].to[1]))) =>
            LET sa == GetSubagentByName(loc[t].parent, loc[t].to[1])
            IN IF owner[sa] = t
                 THEN pc'[t] = "ts_run"
                 ELSE /\ ret'[t].st = "ThreadAffinityViolation"
                      /\ files' = files
       /\ \A i \in 1..Len(loc[t].futs) :
            (pc[t] = "tm_pool" /\ pc'[t] = "tm_pool"
               /\ loc[t].futs[i].st = "pending" /\ loc'[t].futs[i].st # "pending") =>
            \* the worker is no caller thread: it did not construct the child
            /\ loc'[t].futs[i].st = "done"
            /\ loc[t].futs[i].nm \in loc'[t].errs]_vars

\* C19 as stated: a child constructed on the thread that calls
\* transfer_to_subagents passes the owner check when the pool runs it.
C19_FanoutRunsChildren ==
  [][\A t \in Threads : \A i \in 1..Len(loc[t].futs) :
       (pc[t] = "tm_pool" /\ pc'[t] = "tm_pool"
          /\ loc[t].futs[i].st = "pending" /\ loc'[t].futs[i].st # "pending"
          /\ owner[loc[t].futs[i].sa] = t /\ owner[loc[t].parent] = t) =>
       loc'[t].futs[i].st = "running"]_vars

\* ------------------------------------------------------- lock claims
\* C14: when the call of the child in transfer_to_subagent raises, the step
\* that hands the exception to the caller leaves the parent's single-target
\* lock free, so that a later transfer_to_subagent of the parent takes it.
C14_RaiseAfterRelease ==
  [][\A t \in Threads :
       (/\ pc[t] \in {"ts_body", "ts_run"} /\ pc'[t] = "idle"
        /\ ret'[t].ran # <<>>
        /\ ret'[t].st \in {"ChildExecutionError", "ThreadAffinityViolation"}) =>
       /\ ~singleLocks'[AgentId(loc[t].parent)]
       /\ \A u \in Threads \ {t} :
            (pc[u] = "ts_try" /\ loc[u].parent = loc[t].parent) =>
            ~Held(singleLocks', AgentId(loc[u].parent))]_vars

\* a call ended with the child's exception and a later call of the same
\* parent holds the lock
C14_Witness ==
  \E t, u \in Threads :
    /\ ret[t].op = "ts" /\ ret[t].st = "ChildExecutionError"
    /\ pc[u] \in {"ts_body", "ts_run"}
    /\ loc[u].parent = FirstByName(ret[t].from)
    /\ singleLocks[AgentId(loc[u].parent)]

\* C15: a try-lock step never waits, and it answers Busy only while another
\* call of the same pattern and the same parent is between acquire and
\* release; calls of the other pattern and calls of other parents, running
\* or stuck in a child, never make it answer Busy.
C15_BusyOnlySamePatternParent ==
  /\ [](\A u \in Threads : /\ pc[u] = "ts_try" => ENABLED TsTryLock(u)
                           /\ pc[u] = "tm_try" => ENABLED TmTryLock(u))
  /\ [][\A u \in Threads : \A op \in {"ts", "tm"} :
         (/\ loc[u].op = op /\ pc[u] \in {"ts_try", "tm_try"}
          /\ pc'[u] = "idle" /\ ret'[u].st = "Busy") =>
         \E t \in Threads \ {u} :
           InFlight(t, op) /\ loc[t].parent = loc[u].parent]_vars

\* while a child of one parent runs, a call of another parent holds that
\* parent's lock of the same pattern
C15_Witness ==
  \E t, u \in Threads :
    /\ pc[t] = "ts_run" /\ pc[u] = "ts_body"
    /\ loc[t].parent # loc[u].parent

\* C16 as stated: a call whose from name no registered agent has fails with
\* NotFound, has called no child, and no lock exists or is held for it.
C16_UnknownParentNotFound ==
  \A t \in Threads :
    (ret[t].op \in {"ts", "tm"} /\ FirstByName(ret[t].from) = None)
    => /\ ret[t].st = "NotFound"
       /\ ret[t].ran = <<>>

\* ------------------------------------------------------- result claims
\* the tier the files of child sa call for
TierOf(sa) ==
  IF "result" \in files[sa] THEN "result"
  ELSE IF "memory" \in files[sa] THEN "memory" ELSE "ignore"

\* C17: the status returned for a child names the result file when it
\* exists, whether or not the memory file exists; the memory file when only
\* that exists; and is the placeholder when neither exists.
C17_ThreeTier ==
  \A t \in Threads :
    (ret[t].op = "tm" /\ ret[t].st = "ok") =>
      \A nm \in DOMAIN ret[t].val :
        LET sa == GetSubagentByName(FirstByName(ret[t].from), nm)
        IN /\ ret[t].val[nm].agent = sa
           /\ ret[t].val[nm].kind = TierOf(sa)
           /\ "result" \in files[sa] => ret[t].val[nm].kind = "result"

\* one returned map shows the three tiers, the result tier for a child that
\* has both files
C17_Witness ==
  \E t \in Threads :
    /\ ret[t].op = "tm" /\ ret[t].st = "ok"
    /\ \E x, y, z \in DOMAIN ret[t].val :
         /\ ret[t].val[x].kind = "result" /\ files[ret[t].val[x].agent] = FileKinds
         /\ ret[t].val[y].kind = "memory"
         /\ ret[t].val[z].kind = "ignore"

\* ------------------------------------------------------- unregister claims
\* thread t, inside unregister, takes the step
WalkStep(t) ==
  /\ pc[t] = "unreg"
  /\ loc'[t] # loc[t] \/ pc'[t] # pc[t]

\* C18: every step of unregister(id) for an id that is not in the registry
\* leaves the table, the children maps and the delegation locks as they are,
\* and the call returns without error; so does a second unregister of an id.
C18_AbsentIsNoOp ==
  [][\A t \in Threads :
       (WalkStep(t) /\ AgentId(loc[t].a) \notin loc[t].before) =>
       /\ agents' = agents
       /\ subagents' = subagents
       /\ singleLocks' = singleLocks /\ multiLocks' = multiLocks
       /\ pc'[t] = "idle" /\ ret'[t].st = "ok"]_vars

\* the only operation so far was an unregister of an id that was not in the
\* registry, and the registered child attached to that record is still there
C18_Witness ==
  \E t \in Threads :
    /\ ops = 1
    /\ ret[t].op = "unregister" /\ ret[t].st = "ok"
    /\ ret[t].val \notin Registered
    /\ \E c \in SeqToSet(subagents[ret[t].val]) : c \in Registered

\* thread t, inside unregister, deletes record k
DeletionBy(t, k) ==
  /\ pc[t] = "unreg"
  /\ k \in DOMAIN agents /\ k \notin DOMAIN agents'

\* C20 as stated: a record is deleted only after every child attached to it,
\* and recursively their children, have been deleted, and the target is the
\* last record removed.
C20_PostOrderAllBelow ==
  [][\A t \in Threads : \A k \in Ids :
       DeletionBy(t, k) =>
       /\ \A d \in Descendants(k) \ {k} : d \notin DOMAIN agents
       /\ k = AgentId(loc[t].a) => pc'[t] = "idle"]_vars

\* C20 amended: a record is deleted, alone in its step, only when every child
\* attached to it is out of the registry (a registered child was deleted by
\* the recursive call, in the same way; an unregistered child was skipped
\* with whatever is attached below it); a call that returns for a registered
\* target deletes the target in its last step, and nothing after it.
C20_PostOrderRegistered ==
  [][\A t \in Threads :
       /\ \A k \in Ids :
            DeletionBy(t, k) =>
            /\ \A c \in SeqToSet(subagents[k]) : c \notin DOMAIN agents
            /\ DOMAIN agents' = DOMAIN agents \ {k}
            /\ k = AgentId(loc[t].a) => pc'[t] = "idle"
       /\ (/\ pc[t] = "unreg" /\ pc'[t] = "idle" /\ ret'[t].st = "ok"
           /\ AgentId(loc[t].a) \in loc[t].before) =>
            DeletionBy(t, AgentId(loc[t].a))]_vars

\* the walk is back in the frame of the target, which is still registered,
\* after deleting its child and its grandchild
C20_Witness ==
  \E t \in Threads :
    /\ pc[t] = "unreg" /\ Len(loc[t].stack) = 1
    /\ loc[t].stack[1].i > loc[t].stack[1].n /\ loc[t].stack[1].n > 0
    /\ AgentId(loc[t].a) \in Registered
    /\ \A c \in SeqToSet(subagents[loc[t].a]) : c \notin Registered
    /\ Cardinality(loc[t].before \ Registered) >= 2

\* ------------------------------------------------------- lock lifetime claims
\* the calls of pattern op for the parent with agent_id id that are between
\* their acquisition and their return
Holders(op, id) == {t \in Threads : InFlight(t, op) /\ AgentId(loc[t].parent) = id}

\* C21: in every state the lock of a parent and a pattern is held exactly
\* when one call of that pattern for that parent is between its acquisition
\* and its return, and no call is in that span without a lock existing; so
\* every exit has released it.
C21_HeldIffOneInFlight ==
  \A id \in Ids :
    /\ IF id \in DOMAIN singleLocks
         THEN singleLocks[id] <=> Cardinality(Holders("ts", id)) = 1
         ELSE Holders("ts", id) = {}
    /\ IF id \in DOMAIN multiLocks
         THEN multiLocks[id] <=> Cardinality(Holders("tm", id)) = 1
         ELSE Holders("tm", id) = {}

\* a transfer_to_subagents call left by its capability error, its lock is
\* free, and a transfer_to_subagent call of the same parent holds its own
C21_Witness ==
  \E t, u \in Threads :
    /\ ret[t].op = "tm" /\ ret[t].st = "CapabilityError"
    /\ InFlight(u, "ts") /\ loc[u].parent = FirstByName(ret[t].from)
    /\ singleLocks[AgentId(loc[u].parent)]
    /\ AgentId(loc[u].parent) \in DOMAIN multiLocks
    /\ ~multiLocks[AgentId(loc[u].parent)]

\* ------------------------------------------------------- fan-out dispatch claims
\* how often child sa was called by the call whose calls are ran
RECURSIVE Times(_, _)
Times(ran, sa) ==
  IF ran = <<>> THEN 0
  ELSE (IF Head(ran) = sa THEN 1 ELSE 0) + Times(Tail(ran), sa)

\* C22 as stated: one transfer_to_subagents call calls no child more than
\* once, also when the list names a child more than once.
C22_OneInvocationPerChild ==
  \A t \in Threads :
    /\ \A sa \in Ids : Times(loc[t].ran, sa) <= 1
    /\ \A sa \in Ids : Times(ret[t].ran, sa) <= 1

\* C23: the step that returns the map of transfer_to_subagents is taken with
\* every future done, and every entry of the map is the three-tier
\* resolution of the files its child has at that step, for a child whose
\* call returned and for a child whose call raised.
C23_ReresolvedAfterCompletion ==
  [][\A t \in Threads :
       (pc[t] = "tm_pool" /\ pc'[t] = "idle" /\ ret'[t].st = "ok") =>
       /\ \A i \in 1..Len(loc[t].futs) : loc[t].futs[i].st = "done"
       /\ DOMAIN ret'[t].val = {loc[t].futs[i].nm : i \in 1..Len(loc[t].futs)}
       /\ \A i \in 1..Len(loc[t].futs) :
            LET f == loc[t].futs[i]
            IN ret'[t].val[f.nm] = [kind |-> TierOf(f.sa), agent |-> f.sa]]_vars

\* a map came back in which a child whose call raised shows its result file
C23_Witness ==
  \E t \in Threads :
    /\ ret[t].op = "tm" /\ ret[t].st = "ok"
    /\ \E nm \in ret[t].errs : ret[t].val[nm].kind = "result"
    /\ \E nm \in DOMAIN ret[t].val \ ret[t].errs : ret[t].val[nm].kind = "memory"

\* C24: the step in which transfer_to_subagents returns (or raises) after
\* dispatch, and the release of the multi-target lock, happen with every
\* dispatched child finished: none pending, none running, each called.
C24_ReturnAfterAllChildren ==
  [][\A t \in Threads :
       /\ (pc[t] = "tm_pool" /\ pc'[t] # "tm_pool") =>
            /\ \A i \in 1..Len(loc[t].futs) : loc[t].futs[i].st = "done"
            /\ Len(loc[t].ran) = Len(loc[t].futs)
            /\ ret'[t].ran = loc[t].ran
       /\ (pc[t] = "tm_pool" /\ ~multiLocks'[AgentId(loc[t].parent)]) =>
            /\ pc'[t] = "idle"
            /\ \A i \in 1..Len(loc[t].futs) : loc[t].futs[i].st = "done"]_vars

\* the call is about to return: its three children are done and the lock is
\* still held
C24_Witness ==
  \E t \in Threads :
    /\ pc[t] = "tm_pool" /\ Len(loc[t].futs) = 3
    /\ \A i \in 1..3 : loc[t].futs[i].st = "done"
    /\ multiLocks[AgentId(loc[t].parent)]

\* ------------------------------------------------------- pool size claim
\* future i of the call of thread t is submitted and no worker has taken it
Queued(t, i) ==
  pc[t] = "tm_pool" /\ i <= Len(loc[t].futs) /\ loc[t].futs[i].st = "pending"

Flips(lockMap, lockMapNext, id) ==
  /\ id \in DOMAIN lockMap /\ id \in DOMAIN lockMapNext
  /\ lockMap[id] # lockMapNext[id]

\* the lock of table lockMap of the parent named from exists and is free
LockFree(lockMap, from) ==
  LET p == FirstByName(from)
  IN p # None /\ AgentId(p) \in DOMAIN lockMap /\ ~lockMap[AgentId(p)]

\* C26: a delegation lock is free or held and nothing else; it becomes held
\* only by the try-lock step of a call of its parent and pattern and free
\* only by the exit of the call that holds it; a caller at the try-lock is
\* never kept waiting; and with every called child ending, a held lock is
\* eventually free again.
C26_IdleDelegatingIdle ==
  /\ [](/\ \A id \in DOMAIN singleLocks : singleLocks[id] \in BOOLEAN
        /\ \A id \in DOMAIN multiLocks : multiLocks[id] \in BOOLEAN
        /\ \A u \in Threads :
             /\ pc[u] = "ts_try" => ENABLED TsTryLock(u)
             /\ pc[u] = "tm_try" => ENABLED TmTryLock(u))
  /\ [][\A id \in Ids :
          /\ Flips(singleLocks, singleLocks', id) =>
               \E t \in Threads :
                 /\ AgentId(loc[t].parent) = id
                 /\ IF singleLocks'[id]
                      THEN pc[t] = "ts_try" /\ pc'[t] = "ts_body"
                      ELSE InFlight(t, "ts") /\ pc'[t] = "idle"
          /\ Flips(multiLocks, multiLocks', id) =>
               \E t \in Threads :
                 /\ AgentId(loc[t].parent) = id
                 /\ IF multiLocks'[id]
                      THEN pc[t] = "tm_try" /\ pc'[t] = "tm_body"
                      ELSE InFlight(t, "tm") /\ pc'[t] = "idle"]_vars
  /\ \A t \in Threads :
       /\ InFlight(t, "ts") ~> (pc[t] = "idle" /\ LockFree(singleLocks, ret[t].from))
       /\ InFlight(t, "tm") ~> (pc[t] = "idle" /\ LockFree(multiLocks, ret[t].from))

\* a call whose child raised has ended and its lock is free again, while a
\* call of the other pattern holds that parent's other lock
C26_Witness ==
  \E t, u \in Threads :
    /\ ret[t].op = "ts" /\ ret[t].st = "ChildExecutionError" /\ pc[t] = "idle"
    /\ LockFree(singleLocks, ret[t].from)
    /\ InFlight(u, "tm") /\ multiLocks[AgentId(loc[u].parent)]

\* ------------------------------------------------------- protocol step order
\* the call of thread t names a child that its validation rejects: a name
\* that is no child of the parent, or a child without the capability
BadChild(t) ==
  IF loc[t].op = "ts"
    THEN LET c == GetSubagentByName(loc[t].parent, loc[t].to[1])
         IN c = None \/ ~IsSubagentFlag(c)
    ELSE InvalidRequest(loc[t].parent, loc[t].to)

\* C27: the try-lock comes after the parent is resolved and before any child
\* name is looked at: a call naming an unknown or non-capable child returns
\* Busy at the try-lock when the parent's lock of its pattern is held, and
\* when the lock is free takes it, fails at validation with NotFound or
\* CapabilityError and leaves the lock free.
C27_TryLockBeforeChildren ==
  [][\A u \in Threads :
       LET id == AgentId(loc[u].parent)
           lockMap == IF loc[u].op = "ts" THEN singleLocks ELSE multiLocks
           lockMapNext == IF loc[u].op = "ts" THEN singleLocks' ELSE multiLocks'
       IN /\ (pc[u] \in {"ts_try", "tm_try"} /\ pc'[u] # pc[u] /\ BadChild(u)) =>
               /\ loc[u].parent # None /\ loc[u].sa = None /\ loc[u].futs = <<>>
               /\ IF lockMap[id]
                    THEN /\ pc'[u] = "idle" /\ ret'[u].st = "Busy"
                         /\ lockMapNext = lockMap
                    ELSE /\ pc'[u] = (IF loc[u].op = "ts" THEN "ts_body" ELSE "tm_body")
                         /\ lockMapNext[id]
          /\ (pc[u] \in {"ts_body", "tm_body"} /\ pc'[u] # pc[u] /\ BadChild(u)) =>
               /\ lockMap[id] /\ ~lockMapNext[id]
               /\ pc'[u] = "idle"
               /\ ret'[u].st \in {"NotFound", "CapabilityError"}
               /\ ret'[u].ran = <<>>]_vars

\* a call for an unknown child got Busy while another call of the parent
\* runs its child, and a list with a non-capable child got Busy likewise
C27_Witness ==
  \E t, u \in Threads :
    /\ ret[u].st = "Busy" /\ pc[u] = "idle"
    /\ InFlight(t, ret[u].op) /\ loc[t].parent = FirstByName(ret[u].from)
    /\ IF ret[u].op = "ts"
         THEN GetSubagentByName(loc[t].parent, ret[u].req[1]) = None
         ELSE ret[u].req # <<>> /\ InvalidRequest(loc[t].parent, ret[u].req)

\* ------------------------------------------------------- lazy lock creation
\* the lock objects seen for lock map m and agent_id id in a set of entries
ObjectsOf(entries, m, id) ==
  {e.lock : e \in {x \in entries : x.lock_map = m /\ x.agent_id = id}}

\* C28: for every lock map and agent_id at most one lock object is ever
\* made, also when the first calls for the pair run concurrently, and every
\* call for the pair returns that object, which stays the one in the map.
C28_OneLockPerPair ==
  \A m \in LockMaps : \A id \in Ids :
    /\ Cardinality(ObjectsOf(madeLocks, m, id)) <= 1
    /\ ObjectsOf(handed, m, id) \subseteq ObjectsOf(madeLocks, m, id)
    /\ ObjectsOf(lockObj, m, id) = ObjectsOf(madeLocks, m, id)

\* two first calls for the same pair overlap: one has made the lock and is
\* about to return it while the other waits at the guard
C28_Witness ==
  \E t, u \in Threads :
    /\ t # u
    /\ pc[t] = "gl_guard" /\ pc[u] = "gl_ret" /\ locksGuard = u
    /\ glFrame[t].lock_map = glFrame[u].lock_map
    /\ glFrame[t].agent_id = glFrame[u].agent_id
    /\ glFrame[u].lock \in ObjectsOf(madeLocks, glFrame[u].lock_map, glFrame[u].agent_id)

\* ------------------------------------------------------- unregister and its readers
\* thread t reads the table in this step: the scan of get_agent_by_name, or
\* the scan or the store of register
ReadsTable(t) == pc[t] \in {"get_wait", "reg_scan", "reg_insert"} /\ pc'[t] # pc[t]

\* C29 as stated: no get_agent_by_name and no register reads the table while
\* an unregister is inside its cascade, and the table an unregister leaves
\* behind for them (no children map having changed during the call) has
\* every record of the cascade removed or none of them.
C29_CascadeAllOrNothing ==
  [][\A t \in Threads :
       /\ ReadsTable(t) => \A u \in Threads : pc[u] # "unreg"
       /\ (UnregisterEnds(t) /\ subagents = loc[t].subs) =>
            \/ DOMAIN agents' = loc[t].before
            \/ DOMAIN agents' = loc[t].before \ loc[t].reach]_vars

\* the agent_ids of the calls of _unregister_recursive that are on the stack
\* below the innermost one
Outer(stack) == {stack[k].id : k \in 1..(Len(stack) - 1)}

\* C30 as stated: every unregister ends by the base cases of its recursion:
\* no call of _unregister_recursive is entered for a record whose own call
\* is still on the stack with that record in the table, and no unregister
\* ends because the interpreter's recursion limit was reached.
C30_UnregisterTerminates ==
  \A t \in Threads :
    /\ pc[t] = "unreg" =>
         LET stack == loc[t].stack
             top == stack[Len(stack)]
         IN ~(top.i = 0 /\ top.id \in Outer(stack) /\ Found(agents, top.id))
    /\ ret[t].op = "unregister" => ret[t].st # "RecursionError"

\* ------------------------------------------------------- delegation and the registry
\* C31 as stated: at the step in which a delegation calls a child, the child
\* and the parent whose lock the call holds are in the registry.
C31_ActsOnRegistered ==
  [][\A t \in Threads :
       /\ (pc[t] = "ts_body" /\ pc'[t] = "ts_run") =>
            /\ loc'[t].sa \in Registered
            /\ loc[t].parent \in Registered
       /\ (pc[t] = "tm_pool" /\ pc'[t] = "tm_pool"
           /\ Len(loc'[t].ran) = Len(loc[t].ran) + 1) =>
            /\ loc'[t].ran[Len(loc'[t].ran)] \in Registered
            /\ loc[t].parent \in Registered]_vars

\* C32: the step in which a delegation call is rejected as Busy leaves every
\* lock as it was, with the lock of the call in flight still held, calls no
\* child, writes no file and leaves the registry and all children maps
\* unchanged; the Busy value of transfer_to_subagents is a map whose only key
\* is the busy key, which is no agent name.
C32_BusyChangesNothing ==
  [][\A u \in Threads :
       (pc[u] \in {"ts_try", "tm_try"} /\ pc'[u] = "idle") =>
       LET id == AgentId(loc[u].parent)
       IN /\ ret'[u].st = "Busy"
          /\ ret'[u].ran = <<>>
          /\ UNCHANGED <<singleLocks, multiLocks, files, agents, subagents>>
          /\ IF loc[u].op = "ts"
               THEN /\ singleLocks'[id]
                    /\ \E t \in Threads \ {u} : InFlight(t, "ts") /\ loc[t].parent = loc[u].parent
               ELSE /\ multiLocks'[id]
                    /\ \E t \in Threads \ {u} : InFlight(t, "tm") /\ loc[t].parent = loc[u].parent
                    /\ DOMAIN ret'[u].val = {BusyKey}
                    /\ BusyKey \notin Names
                    /\ ret'[u].val[BusyKey].kind = "busy"]_vars

\* a transfer_to_subagents call for a child of the parent got the Busy map
\* while the call in flight still holds the lock
C32_Witness ==
  \E t, u \in Threads :
    /\ ret[u].op = "tm" /\ ret[u].st = "Busy" /\ pc[u] = "idle"
    /\ ret[u].req # <<>>
    /\ InFlight(t, "tm") /\ loc[t].parent = FirstByName(ret[u].from)
    /\ multiLocks[AgentId(loc[t].parent)]

\* ------------------------------------------------------- deadlock freedom
\* C33: the thread holding the registry lock is inside a registry method and
\* the thread holding the lock-map guard is inside _get_lock; neither holds
\* the other lock, waits for a lock or runs a child, and each can take its
\* next step; a delegation lock is only try-locked, so a caller at it goes on
\* at once; and with every child ending, every call of every thread ends, for
\* registry calls, both delegation functions and a delegation nested in a
\* running child.
C33_NoThreadWaitsForever ==
  /\ [](\A t \in Threads :
          /\ agentsLock = t =>
               /\ pc[t] \in {"reg_scan", "reg_insert", "unreg"}
               /\ locksGuard # t
               /\ ENABLED SystemStep(t)
          /\ locksGuard = t =>
               /\ pc[t] \in {"gl_get", "gl_make", "gl_ret"}
               /\ agentsLock # t
               /\ ENABLED SystemStep(t)
          /\ (pc[t] \in {"ts_run", "tm_pool"} \/ loc[t].under # None) =>
               agentsLock # t /\ locksGuard # t
          /\ pc[t] \in {"ts_try", "tm_try"} => ENABLED (TsTryLock(t) \/ TmTryLock(t)))
  /\ \A t \in Threads : (pc[t] # "idle") ~> (pc[t] = "idle")

\* a call nested in the run of a child asks for the lock its caller holds,
\* while another thread is inside the registry lock
C33_Witness ==
  \E t, u \in Threads :
    /\ pc[t] = "ts_run" /\ loc[u].under = t /\ pc[u] = "ts_try"
    /\ loc[u].parent = loc[t].parent
    /\ singleLocks[AgentId(loc[t].parent)]

\* ------------------------------------------------------- lifecycle claims
\* C34: the registry table changes only by the store of a register that
\* found the name free, which adds the constructed agent and nothing else,
\* and by the deletions of an unregister, each of the target or of a
\* descendant of it; a register that ends has the agent in the table exactly
\* when it succeeded, an unregister that returns has its target out of the
\* table, and a failed register, a failed construction, an attach, a lookup,
\* a delegation and a tool call leave the table as it is.
C34_MembershipFollowsLifecycle ==
  [][/\ agents' # agents =>
          \E t \in Threads :
            \/ /\ pc[t] = "reg_insert" /\ ret'[t].st = "ok"
               /\ AgentId(loc[t].a) \notin Registered
               /\ agents' = Insert(agents, loc[t].a)
            \/ /\ pc[t] = "unreg"
               /\ \E k \in Registered :
                    /\ k \in {AgentId(loc[t].a)} \cup Descendants(loc[t].a)
                    /\ DOMAIN agents' = Registered \ {k}
                    /\ \A j \in DOMAIN agents' : agents'[j] = agents[j]
     /\ \A t \in Threads :
          /\ RegisterEnds(t) =>
               IF ret'[t].st = "ok" THEN AgentId(loc[t].a) \in DOMAIN agents'
               ELSE agents' = agents /\ AgentId(loc[t].a) \notin DOMAIN agents'
          /\ (UnregisterEnds(t) /\ ret'[t].st = "ok") =>
               AgentId(loc[t].a) \notin DOMAIN agents'
          /\ (ret'[t] # ret[t] /\ ret'[t].op \in {"construct", "append", "get", "ts", "tool"}) =>
               agents' = agents]_vars

\* an agent built with a list of children is registered, one whose
\* construction failed is not, and an unregister has removed a subtree
C34_Witness ==
  \E t, u \in Threads :
    /\ ret[t].op = "register" /\ ret[t].st = "ok"
    /\ subagents[ret[t].val] # <<>> /\ ret[t].val \in Registered
    /\ ret[u].op = "construct" /\ ret[u].st = "ValueError"
    /\ ret[u].val \notin Registered

\* C35: in every state every children map has no two children of one name,
\* no child with the name of its agent, and only children flagged as
\* subagents; a construction or an append_subagents that is rejected leaves
\* every children map unchanged.
C35_ChildrenMapInvariant ==
  /\ [](\A a \in Ids :
          /\ \A i, j \in 1..Len(subagents[a]) :
               i # j => NameOf(subagents[a][i]) # NameOf(subagents[a][j])
          /\ \A i \in 1..Len(subagents[a]) :
               /\ NameOf(subagents[a][i]) # NameOf(a)
               /\ HasIsAsync(subagents[a][i]))
  /\ [][\A t \in Threads :
          (/\ ret'[t] # ret[t]
           /\ ret'[t].op \in {"construct", "append"}
           /\ ret'[t].st # "ok") => subagents' = subagents]_vars

\* an attach of a child with a name the map already has was rejected: the
\* map has the child of that name and not the rejected one
C35_Witness ==
  \E t \in Threads : \E a \in Ids :
    /\ ret[t].op = "append" /\ ret[t].st = "ValueError"
    /\ \E c \in Ids \ SeqToSet(subagents[a]) :
         /\ c \notin fresh /\ HasIsAsync(c) /\ NameOf(c) # NameOf(a)
         /\ GetSubagentByName(a, NameOf(c)) # None

\* the innermost bound copy that encloses frame i of thread t, or 0: the
\* copy whose _agent_info_context.set() the wrapper of frame i runs under
CopyAround(t, i) ==
  LET js == {j \in 1..i : frames[t][j].agent # None}
  IN IF js = {} THEN 0 ELSE CHOOSE j \in js : \A k \in js : k <= j

\* C36: the wrapper's read takes the value of the context slot whenever the
\* slot holds one and takes wrapper._agent_info only when the slot is empty;
\* so every tool call that has resolved its identity inside a bound copy has
\* the identity of that copy's agent, whatever the wrapper attribute holds,
\* and a call outside every bound copy has the wrapper attribute.
C36_ContextBeforeFallback ==
  /\ [][\A t \in Threads :
          WrapperRead(t) =>
            LET slot == agentInfoCtx[Slot(t)]
                info == frames'[t][Len(frames[t])].info
            IN /\ slot # None => info = slot
               /\ slot = None => info = wrapperInfo]_vars
  /\ [](\A t \in Threads : \A i \in 1..Len(frames[t]) :
          frames[t][i].pcf \notin {"set", "read"} =>
            IF CopyAround(t, i) = 0
              THEN frames[t][i].info = wrapperInfo
              ELSE frames[t][i].info = AgentInfo(frames[t][CopyAround(t, i)].agent))

\* the wrapper holds an identity; one thread is in the body of a bound tool
\* call with its own agent's identity, another in the body of a direct call
\* with the wrapper's
C36_Witness ==
  /\ wrapperInfo # None
  /\ \E t, u \in Threads :
       /\ frames[t] # <<>> /\ Top(t).pcf = "body" /\ Top(t).agent # None
       /\ Top(t).info = AgentInfo(Top(t).agent) /\ Top(t).info # wrapperInfo
       /\ frames[u] # <<>> /\ Top(u).pcf = "body" /\ Top(u).agent = None
       /\ Top(u).info = wrapperInfo

\* every AgentManager() call returns the one object ever made
C37_SameInstance ==
  /\ Len(managers) <= 1
  /\ \A t \in Threads : pc[t] = "reg_attr" => loc[t].inst = 1

\* the table is set only on a new object, before any register can reach it
C37_NeverReinitialised ==
  [][\A t \in Threads :
       NewAgents(t) => ~managers[instance].agents /\ agents = Table({})]_vars

\* the object a returning AgentManager() call hands out has its table and lock
C37_Initialised ==
  \A t \in Threads :
    pc[t] = "reg_attr" =>
      managers[loc[t].inst].agents /\ managers[loc[t].inst].lock

\* C37: every AgentManager() call, concurrent first calls included, returns
\* the one manager object, and that object has the agents table and the
\* registry lock; the table is never set again once it exists.
C37_OneRegistryTable ==
  /\ [](C37_SameInstance /\ C37_Initialised)
  /\ C37_NeverReinitialised

\* C38: coding_tool applied to a callable it made returns that object and
\* makes nothing; applied to a wrapper that tool() made it makes exactly one
\* object, a coding callable around that wrapper with the wrapper's
\* _agent_info, from which unwrapping reaches the same original function as
\* from the wrapper, and no further tool wrapper; applied to an undecorated
\* function it makes one tool wrapper and the coding callable around it.
C38_NoDoubleWrap ==
  [][\A t \in Threads :
       (ret'[t] # ret[t] /\ ret'[t].op = "coding_tool") =>
         LET f == ret'[t].from
             r == ret'[t].val
             n == Len(objs)
         IN /\ SubSeq(objs', 1, n) = objs
            /\ objs[f].kind = "coding" => r = f /\ objs' = objs
            /\ objs[f].kind = "tool" =>
                 /\ Len(objs') = n + 1 /\ r = n + 1
                 /\ objs'[r].kind = "coding"
                 /\ objs'[r].tool_func = f
                 /\ objs'[r].marked /\ objs'[r].info = objs[f].info
                 /\ Unwrap(objs', r) = Unwrap(objs, f)
                 /\ objs'[r].original = Unwrap(objs, f)
            /\ objs[f].kind = "plain" =>
                 /\ Len(objs') = n + 2 /\ r = n + 2
                 /\ objs'[n + 1] = ToolWrapper(f)
                 /\ objs'[r].kind = "coding" /\ objs'[r].tool_func = n + 1
                 /\ Unwrap(objs', r) = f
            /\ objs'[Unwrap(objs', r)].kind = "plain"]_vars

\* coding_tool was applied to the wrapper that tool() made, which holds an
\* identity, and then to its own product: the second call returned the object
\* it was given, a coding callable around that wrapper with that identity
C38_Witness ==
  \E t \in Threads :
    /\ ret[t].op = "coding_tool" /\ ret[t].from = ret[t].val
    /\ objs[ret[t].val].kind = "coding"
    /\ objs[objs[ret[t].val].tool_func] = [ToolWrapper(1) EXCEPT !.info = AgentInfo(LegacyAgent)]
    /\ objs[ret[t].val].info = AgentInfo(LegacyAgent)
    /\ Cardinality({i \in 1..Len(objs) : objs[i].kind = "tool"}) = 1

====
